---------------------------- MODULE Spec2Model ----------------------------
(***************************************************************************)
(* A model of the whc-bench load generators: the HTTP stress tester of     *)
(* src/http_stress.py (single- and multi-threaded mode), its older         *)
(* variant src/main.py, and the percentile computation shared with         *)
(* src/kafka_consumer.py.                                                  *)
(*                                                                         *)
(* Time is the value time.time() returns.  Every call of time.time() is a  *)
(* read of a monotonic clock: the action that makes the call picks the     *)
(* value read, now', anywhere in now..max_time.                            *)
(*                                                                         *)
(* An event loop runs one coroutine at a time, from one await that         *)
(* suspends it to the next: running[t] is the worker of thread t that is   *)
(* between two such awaits.  Threads interleave at every step.  The driver *)
(* and the task_loader are allowed to yield at every await they make.      *)
(***************************************************************************)
EXTENDS Integers, Sequences, FiniteSets, TLC

(***************************************************************************)
(* Bounds of the model.                                                    *)
(***************************************************************************)
MaxUnits == 4
MaxConcurrent == 2
MaxThreads == 2
MaxInterval == 1
TimeSpan == 1
MaxSamples == 5
MaxCalls == 2
MaxMessages == 3
KafkaSpan == 6
MaxSignals == 1
MaxRecords == 4
WriterSpan == 4
MaxStops == 2
MaxFailures == 1
\* buffer_size of the writer (1000 in kafka_consumer.py line 139, 100 in
\* mqtt_client.py line 217), scaled down
FlushSize == 3

(***************************************************************************)
(* Program constants.                                                      *)
(***************************************************************************)
ErrorsShown == 10

\* asyncio.sleep(1.0) of the watchdog, kafka_consumer.py line 86; a tick is half a second
PollTicks == 2

\* timeout=1.0 of the writer's wait_for, kafka_consumer.py line 156, in ticks
FlushTicks == 2

\* time.time() at the start of a run: the Unix time, larger than any interval.
StartTime == MaxInterval + 1

VARIABLES
    mode,               \* "single" | "multi" (http_stress.py), "main" (main.py), "pct"
    device_count,       \* len(self.device_ids)
    loop_count,         \* self.loop_count
    concurrent,         \* self.concurrent
    threads,            \* self.threads
    interval,           \* self.interval
    max_time,           \* the last clock value of the run (bound)
    responses,          \* the statuses the target answers with in this run (0: exception)
    now,                \* the last value read from time.time()
    main_pc,            \* position of run() / _run_single_threaded / _run_multi_threaded
    prod_idx,           \* number of units the driver has enqueued
    nones_put,          \* number of None sentinels the driver has enqueued
    task_queue,         \* the shared queue.Queue of multi-threaded mode
    queue,              \* queue[t]: the asyncio.Queue of thread t (thread 1 in single mode)
    unfinished,         \* unfinished[t]: queue[t]._unfinished_tasks
    pc,                 \* pc[w]: position of worker coroutine w = <<thread, index>>
    item,               \* item[w]: the unit worker w holds
    wake_at,            \* wake_at[w]: the time asyncio.sleep(sleep_time) of w ends
    start_time,         \* start_time[w]: send_request's start_time
    result,             \* result[w]: the dict send_request returned to w
    running,            \* running[t]: the worker coroutine thread t's event loop is
                        \*   executing between two of its awaits, NoWorker if none
    interval_lock,      \* holder of interval_lock / thread_interval_lock
    stats_lock,         \* holder of stats_lock / thread_stats_lock
    last_request_time,  \* self.last_request_time, a defaultdict(float)
    stats,              \* self.stats
    loader_pc,          \* loader_pc[t]: position of thread t's task_loader
    loader_item,        \* loader_item[t]: the item task_loader holds
    loader_nones,       \* loader_nones[t]: sentinels task_loader has put
    sent,               \* history: sent[u] = number of send_request calls for unit u
    recorded,           \* history: recorded[u] = how often u's outcome entered stats
    last_dispatch,      \* history: last_dispatch[d] = start_time of the latest request of d
    min_dispatch_gap,   \* history: least time between two successive requests of one key
    min_update_gap,     \* history: least time between two successive writes of
                        \*          last_request_time[d] for one key d
    report,             \* what print_stats printed
    pct_data,           \* input of calculate_percentile
    pct_p,              \* percentile (in hundredths) of calculate_percentile
    pct_result,         \* value calculate_percentile returned
    pct_orig,           \* history: the latency list as it was recorded
    pct_calls,          \* history: number of percentile computations made
    pct_stats,          \* what MQTTClient.get_stats returned
    idle_timeout,       \* kafka: self.idle_timeout_seconds, in ticks
    timely,             \* whether a sleeping task runs in the tick its sleep ends
    consumer_running,   \* kafka: self.running
    start_consuming_time,   \* kafka: self.start_consuming_time, NoTime for None
    last_message_time,  \* kafka: self.last_message_time, NoTime for None
    wd_pc,              \* kafka: position of the _timeout_checker task
    wd_wake,            \* kafka: the time the watchdog's asyncio.sleep(1.0) ends
    wd_cancel,          \* kafka: timeout_check_task.cancel() was called, not yet delivered
    loop_pc,            \* kafka: position of the consume_loop task
    kstats,             \* kafka: self.stats
    arrivals,           \* kafka: number of messages the consumer has delivered
    discarded,          \* history: messages consume_loop took and did not process
    signals,            \* number of calls of stop() from outside the tasks
    activity,           \* history: the later of start and the last process_message call
    last_success_time,  \* history: time of the last message processed without error
    fire_count,         \* history: number of times the watchdog called stop()
    fired_at,           \* history: the time of that call
    fire_idle,          \* history: the time from activity to that call
    fire_stats,         \* history: self.stats at that call
    csv_writer_running, \* self.csv_writer_running
    writer_pc,          \* position of the _csv_writer_worker task
    writer_cancel,      \* csv_writer_task.cancel() was called, not yet delivered
    writer_deadline,    \* the time wait_for(queue.get(), timeout=1.0) gives up
    data_queue,         \* self.data_queue / self.latency_queue
    buffer,             \* the writer's buffer list
    sink,               \* the rows of the CSV file; HeaderRow is the header
    helper,             \* helper[h]: position of the thread asyncio.to_thread started
    enqueued,           \* history: number of records put on the queue
    at_stop,            \* history: records in the queue or the buffer at the first stop
    stops,              \* history: number of stop() / stop_all() calls
    buffer_since,       \* history: the time the buffer became non-empty, NoTime if empty
    write_failed,       \* history: number of batch writes that raised
    exit_code,          \* the value main() returns to sys.exit
    prints,             \* number of calls of print_stats() of the consumer or the clients
    client_pc,          \* mqtt: client_pc[c]: position of the connect_and_subscribe task
    client_stats,       \* mqtt: client_stats[c]: self.stats of client c
    put_tasks,          \* mqtt: the records of the latency_queue.put tasks not yet run
    put_log,         \* history: the records put on the queue, in the order of the puts
    call_args,          \* the arguments of a call of a function taken on its own
    call_result         \* what the call returned, NoCall before it

cfgVars == <<mode, device_count, loop_count, concurrent, threads, interval, max_time,
            responses>>
mainVars == <<main_pc, prod_idx, nones_put>>
queueVars == <<task_queue, queue, unfinished>>
workerVars == <<pc, item, wake_at, start_time, result, running>>
lockVars == <<interval_lock, stats_lock>>
loaderVars == <<loader_pc, loader_item, loader_nones>>
histVars == <<sent, recorded, last_dispatch, min_dispatch_gap, min_update_gap>>
pctVars == <<pct_data, pct_p, pct_result, pct_orig, pct_calls, pct_stats>>
kafkaVars == <<idle_timeout, timely, consumer_running, start_consuming_time,
              last_message_time, wd_pc, wd_wake, wd_cancel, loop_pc, kstats, arrivals,
              discarded, signals, activity, last_success_time, fire_count, fired_at,
              fire_idle, fire_stats>>
writerVars == <<csv_writer_running, writer_pc, writer_cancel, writer_deadline,
               data_queue, buffer, sink, helper, enqueued, at_stop, stops,
               buffer_since, write_failed>>
auxVars == <<client_stats, put_tasks, put_log, call_args, call_result>>
procVars == <<exit_code, prints, client_pc, auxVars>>
toolVars == <<kafkaVars, writerVars, procVars>>
\* the state of the HTTP tools other than the configuration, the clock and main_pc
stressVars == <<prod_idx, nones_put, queueVars, workerVars, lockVars, last_request_time,
               stats, loaderVars, histVars, report>>
vars == <<cfgVars, now, mainVars, queueVars, workerVars, lockVars,
          last_request_time, stats, loaderVars, histVars, report, pctVars, toolVars>>

(***************************************************************************)
(* Values.                                                                 *)
(***************************************************************************)
Min(a, b) == IF a < b THEN a ELSE b

Max(a, b) == IF a > b THEN a ELSE b

\* The None sentinel of the queues; device 0 is no device.
NoneItem == <<0, 0>>

NoWorker == <<0, 0>>

\* no two successive events of one key were seen yet: more than any gap of a run,
\* whose clock reads span TimeSpan ticks
NoGap == TimeSpan + 1

\* the least gap seen, after one more gap g
MinGap(least, g) == IF least = NoGap THEN g ELSE Min(least, g)

ThreadIds == 1..MaxThreads

Workers == ThreadIds \X (1..MaxConcurrent)

DeviceIds == 1..MaxUnits

\* the longest run: one more failing request than print_stats shows errors
MaxRounds == Max(MaxUnits, ErrorsShown + 1)

AllUnits == DeviceIds \X (0..(MaxRounds - 1))

\* range(self.threads) in multi-threaded mode, the one event loop otherwise
LiveThreads == 1..threads

\* LiveWorkers for a pool created with range(self.concurrent + 1)
LiveWorkersOneMore == LiveThreads \X (1..Min(concurrent + 1, MaxConcurrent))

\* range(self.concurrent) in every live thread
LiveWorkers == LiveThreads \X (1..concurrent)

\* the (device_id, loop_index) pairs of the run
Units == (1..device_count) \X (0..(loop_count - 1))

\* total_requests = len(self.device_ids) * self.loop_count
total_requests == device_count * loop_count

\* asyncio.Queue(maxsize=self.concurrent * 2)
maxsize == concurrent * 2

\* RoundMajorUnit for a producer whose outer loop runs over the rounds downwards
RoundMajorUnitDescending(i) ==
    <<(i % device_count) + 1, loop_count - 1 - (i \div device_count)>>

\* the i-th unit (from 0) the round-major loops of http_stress.py enqueue
RoundMajorUnit(i) == <<(i % device_count) + 1, i \div device_count>>

\* the i-th unit (from 0) the device-major loops of main.py enqueue
DeviceMajorUnit(i) == <<(i \div loop_count) + 1, i % loop_count>>

\* the values time.time() can return next
ClockReads == now..max_time

EmptyStats == [total |-> 0, success |-> 0, failed |-> 0,
               errors |-> <<>>, latencies |-> <<>>]

NoResult == [device_id |-> 0, status |-> 0, success |-> FALSE, elapsed |-> 0]

NoReport == [printed |-> FALSE, total |-> 0, success |-> 0, failed |-> 0,
             median |-> 0, p95 |-> 0, p99 |-> 0, errors |-> <<>>]


(***************************************************************************)
(* Pure functions.                                                         *)
(***************************************************************************)
\* http_stress.py line 180 (main.py line 110): 200 <= response.status < 300
HttpSuccess(status) == 200 <= status /\ status < 300

\* What one call of send_request can meet: a response with a status, or an
\* exception (connection error, timeout), reported as status 0.
Responses == {200, 500, 0}

\* a target that answers every request with an error status
FailingResponses == {500}

\* the dict send_request returns
MakeResult(device_id, status, elapsed) ==
    [device_id |-> device_id, status |-> status,
     success |-> HttpSuccess(status), elapsed |-> elapsed]

RECURSIVE Insert(_, _)
Insert(x, s) ==
    IF s = <<>> THEN <<x>>
    ELSE IF x <= Head(s) THEN <<x>> \o s
    ELSE <<Head(s)>> \o Insert(x, Tail(s))

RECURSIVE sorted(_)
\* Python's sorted(data), ascending
sorted(data) ==
    IF data = <<>> THEN <<>> ELSE Insert(Head(data), sorted(Tail(data)))

\* PercentileIndex rounding to the nearest index
PercentileIndexRounded(n, pct) == (n * pct + 50) \div 100

\* int(n * percentile) for percentile = pct / 100: the float product truncated.
\* For pct in {50, 90, 95, 99} it equals floor(n * pct / 100) for all n <= 200000.
PercentileIndex(n, pct) == (n * pct) \div 100

\* calculate_percentile indexing the list in the order it was recorded
calculate_percentile_unsorted(data, pct) ==
    IF data = <<>> THEN 0
    ELSE LET index == PercentileIndex(Len(data), pct)
         IN  IF index >= Len(data)
             THEN data[Len(data)]
             ELSE data[index + 1]

\* KafkaConsumerManager.calculate_percentile; data[i] of Python is data[i + 1] here
calculate_percentile(data, pct) ==
    IF data = <<>> THEN 0
    ELSE LET sorted_data == sorted(data)
             index == PercentileIndex(Len(sorted_data), pct)
         IN  IF index >= Len(sorted_data)
             THEN sorted_data[Len(sorted_data)]
             ELSE sorted_data[index + 1]

\* MQTTClient.get_stats before any latency was recorded: no latency_* keys
NoClientStats == [latency_p50 |-> 0, latency_p95 |-> 0, latency_p99 |-> 0, any |-> FALSE]

\* MQTTClient.get_stats (mqtt_client.py lines 159-165): the percentiles of the
\* client's latencies, each by its own sorted() copy
get_stats(latencies) ==
    IF latencies = <<>> THEN NoClientStats
    ELSE LET n == Len(latencies)
         IN  [latency_p50 |-> sorted(latencies)[(n \div 2) + 1],
              latency_p95 |-> sorted(latencies)[((n * 95) \div 100) + 1],
              latency_p99 |-> sorted(latencies)[((n * 99) \div 100) + 1],
              any |-> TRUE]

\* print_stats without the [:10] of line 560
print_stats_all_errors(s) ==
    LET latencies == sorted(s.latencies)
        total_latencies == Len(latencies)
        p95_index == PercentileIndex(total_latencies, 95)
        p99_index == PercentileIndex(total_latencies, 99)
    IN  [printed |-> TRUE, total |-> s.total, success |-> s.success,
         failed |-> s.failed,
         median |-> IF total_latencies = 0 THEN 0
                    ELSE latencies[(total_latencies \div 2) + 1],
         p95 |-> IF total_latencies = 0 THEN 0
                 ELSE IF p95_index < total_latencies THEN latencies[p95_index + 1]
                 ELSE latencies[total_latencies],
         p99 |-> IF total_latencies = 0 THEN 0
                 ELSE IF p99_index < total_latencies THEN latencies[p99_index + 1]
                 ELSE latencies[total_latencies],
         errors |-> s.errors]

\* StressTester.print_stats of http_stress.py: what it prints of self.stats
print_stats(s) ==
    LET latencies == sorted(s.latencies)
        total_latencies == Len(latencies)
        p95_index == PercentileIndex(total_latencies, 95)
        p99_index == PercentileIndex(total_latencies, 99)
    IN  [printed |-> TRUE, total |-> s.total, success |-> s.success,
         failed |-> s.failed,
         median |-> IF total_latencies = 0 THEN 0
                    ELSE latencies[(total_latencies \div 2) + 1],
         p95 |-> IF total_latencies = 0 THEN 0
                 ELSE IF p95_index < total_latencies THEN latencies[p95_index + 1]
                 ELSE latencies[total_latencies],
         p99 |-> IF total_latencies = 0 THEN 0
                 ELSE IF p99_index < total_latencies THEN latencies[p99_index + 1]
                 ELSE latencies[total_latencies],
         errors |-> SubSeq(s.errors, 1, Min(ErrorsShown, Len(s.errors)))]

\* the i-th unit the driver enqueues
UnitAt(i) == IF mode = "main" THEN DeviceMajorUnit(i) ELSE RoundMajorUnit(i)

\* NeedsThrottle without the test of loop_index
NeedsThrottleAnyRound(it) == interval > 0

\* http_stress.py line 237: if self.interval > 0 and loop_index > 0
NeedsThrottle(it) == interval > 0 /\ it[2] > 0

\* SleepTime for a table whose default entry is the present time
SleepTimeDefaultNow(last_time, current_time) ==
    LET elapsed == IF last_time = 0 THEN 0 ELSE current_time - last_time
    IN  IF elapsed < interval THEN interval - elapsed ELSE 0

\* SleepTime without the else branch: a worker whose interval has passed sleeps a
\* whole interval
SleepTimeAlways(last_time, current_time) ==
    LET elapsed == current_time - last_time
    IN  IF elapsed < interval THEN interval - elapsed ELSE interval

\* http_stress.py lines 242-248: the sleep_time computed from last_time at current_time
SleepTime(last_time, current_time) ==
    LET elapsed == current_time - last_time
    IN  IF elapsed < interval THEN interval - elapsed ELSE 0

(***************************************************************************)
(* Initial states: the tester after __init__, before run().                *)
(***************************************************************************)
\* time.time() before any was taken: None
NoTime == 0

\* the keys of KafkaConsumerManager.stats (lines 51-56); a latency is written as the
\* number of the message it was measured of
EmptyKafkaStats ==
    [messages_received |-> 0, message_timestamp_latency |-> <<>>,
     tx_start_latency |-> <<>>, errors |-> <<>>]

\* the threads asyncio.to_thread starts for the writer: for write_header, for the
\* write_batch of the loop (lines 162, 167) and for the last write_batch (line 184)
Helpers == {"header", "loop", "final"}

\* the header line of the CSV file
HeaderRow == 0

\* KafkaConsumerManager.__init__ (lines 50-73): nothing consumed, no task created
KafkaIdle ==
    /\ consumer_running = TRUE
    /\ start_consuming_time = NoTime
    /\ last_message_time = NoTime
    /\ wd_pc = "none"
    /\ wd_wake = NoTime
    /\ wd_cancel = FALSE
    /\ loop_pc = "none"
    /\ kstats = EmptyKafkaStats
    /\ arrivals = 0
    /\ discarded = 0
    /\ signals = 0
    /\ activity = NoTime
    /\ last_success_time = NoTime
    /\ fire_count = 0
    /\ fired_at = NoTime
    /\ fire_idle = 0
    /\ fire_stats = EmptyKafkaStats

\* __init__ (kafka_consumer.py lines 58-63, mqtt_client.py lines 192-197): the queue
\* is empty and the writer task is not created
WriterIdle ==
    /\ csv_writer_running = TRUE
    /\ writer_pc = "none"
    /\ writer_cancel = FALSE
    /\ writer_deadline = NoTime
    /\ data_queue = <<>>
    /\ buffer = <<>>
    /\ sink = <<>>
    /\ helper = [h \in Helpers |-> "idle"]
    /\ enqueued = 0
    /\ at_stop = {}
    /\ stops = 0
    /\ buffer_since = NoTime
    /\ write_failed = 0

\* the clients of MQTTClientManager: one for each identifier loaded
Clients == 1..MaxConcurrent

\* MQTTClient.__init__ (mqtt_client.py lines 42-46): the keys of self.stats the
\* model follows
EmptyClientStats == [messages_received |-> 0, errors |-> 0]

\* no function was called
NoCall == [fn |-> "none"]

\* main() has not returned, nothing was printed and no client task is created
ProcIdle ==
    /\ exit_code = 0
    /\ prints = 0
    /\ client_pc = [c \in Clients |-> "none"]
    /\ client_stats = [c \in Clients |-> EmptyClientStats]
    /\ put_tasks = <<>>
    /\ put_log = <<>>
    /\ call_args = NoCall
    /\ call_result = NoCall

\* the state of the HTTP tester and of the statistics
InitTesterAt(at, m, d, l, c, t, i, mt, rs, data) ==
    /\ main_pc = at
    /\ pct_data = data
    /\ responses = rs
    /\ mode = m
    /\ device_count = d
    /\ loop_count = l
    /\ concurrent = c
    /\ threads = t
    /\ interval = i
    /\ max_time = mt
    /\ now = StartTime
    /\ prod_idx = 0
    /\ nones_put = 0
    /\ task_queue = <<>>
    /\ queue = [th \in ThreadIds |-> <<>>]
    /\ unfinished = [th \in ThreadIds |-> 0]
    /\ pc = [w \in Workers |-> "idle"]
    /\ item = [w \in Workers |-> NoneItem]
    /\ wake_at = [w \in Workers |-> 0]
    /\ start_time = [w \in Workers |-> 0]
    /\ result = [w \in Workers |-> NoResult]
    /\ running = [th \in ThreadIds |-> NoWorker]
    /\ interval_lock = NoWorker
    /\ stats_lock = NoWorker
    /\ last_request_time = [dev \in DeviceIds |-> 0]
    /\ loader_pc = [th \in ThreadIds |-> "idle"]
    /\ loader_item = [th \in ThreadIds |-> NoneItem]
    /\ loader_nones = [th \in ThreadIds |-> 0]
    /\ sent = [u \in AllUnits |-> 0]
    /\ recorded = [u \in AllUnits |-> 0]
    /\ last_dispatch = [dev \in DeviceIds |-> 0]
    /\ min_dispatch_gap = NoGap
    /\ min_update_gap = NoGap
    /\ report = NoReport
    /\ stats = [EmptyStats EXCEPT !.latencies = pct_data, !.total = Len(pct_data),
                                  !.success = Len(pct_data)]
    /\ pct_p = 0
    /\ pct_result = 0
    /\ pct_orig = data
    /\ pct_calls = 0
    /\ pct_stats = NoClientStats

\* the tester when run() is called and the identifiers are loaded
InitTester(m, d, l, c, t, i, mt, rs, data) ==
    InitTesterAt("init", m, d, l, c, t, i, mt, rs, data)

InitState(m, d, l, c, t, i, mt, rs, data) ==
    /\ InitTester(m, d, l, c, t, i, mt, rs, data)
    /\ idle_timeout = 1
    /\ timely = TRUE
    /\ KafkaIdle
    /\ WriterIdle
    /\ ProcIdle

\* the device and loop counts of a run of at most MaxUnits units
Shapes == {s \in (1..MaxUnits) \X (1..MaxUnits) : s[1] * s[2] <= MaxUnits}

\* The interval and the clock of a run.  Without an interval no step of the run
\* depends on the time, and the clock is read as one value throughout; with an
\* interval the clock runs over TimeSpan ticks.
Timings == {<<0, StartTime>>, <<MaxInterval, StartTime + TimeSpan>>}

InitSingle ==
    \E s \in Shapes, c \in 1..MaxConcurrent, tm \in Timings :
        InitState("single", s[1], s[2], c, 1, tm[1], tm[2], Responses, <<>>)

InitMain ==
    \E s \in Shapes, c \in 1..MaxConcurrent, tm \in Timings :
        InitState("main", s[1], s[2], c, 1, tm[1], tm[2], Responses, <<>>)

\* Multi-threaded runs (threads > 1, line 458) are kept smaller: fewer than MaxUnits
\* units, at most MaxUnits worker coroutines and units together, and a running
\* clock only with one worker per thread.
InitMulti ==
    \E s \in Shapes, c \in 1..MaxConcurrent, t \in 2..MaxThreads, tm \in Timings :
        /\ s[1] * s[2] < MaxUnits
        /\ t * c + s[1] * s[2] <= MaxUnits + t
        /\ tm[1] > 0 => c = 1 /\ s[1] * s[2] + 1 < MaxUnits
        /\ InitState("multi", s[1], s[2], c, t, tm[1], tm[2], Responses, <<>>)

\* the latencies the percentiles are computed of
SampleValues == {10, 20, 30, 40, 100}

\* the sequences over S of length n
SeqsOfLen(S, n) == [1..n -> S]

\* the percentiles calculate_percentile is asked for, in hundredths: those of
\* print_stats of kafka_consumer.py (lines 454-457) and the whole, where the index
\* len * percentile is past the end
Percentiles == {50, 90, 95, 99, 100}

\* Statistics that hold any list of at most MaxSamples latencies, before they are printed
InitPct ==
    \E n \in 0..MaxSamples : \E data \in SeqsOfLen(SampleValues, n) :
        InitState("pct", 1, 1, 1, 1, 0, StartTime, Responses, data)

\* A single-threaded run of one worker against a target that fails every request,
\* one request longer than the error list print_stats shows.
InitFailing ==
    InitState("single", 1, ErrorsShown + 1, 1, 1, 0, StartTime, FailingResponses, <<>>)

(***************************************************************************)
(* The worker coroutine: StressTester.worker and                           *)
(* StressTester._thread_worker_coroutine.                                  *)
(***************************************************************************)
\* The call of send_request for unit u by worker w, no earlier than `from`:
\* start_time = time.time() (line 150), then the request is in flight.
Dispatch(w, u, from) ==
    \E t \in from..max_time :
        /\ now' = t
        /\ start_time' = [start_time EXCEPT ![w] = t]
        /\ pc' = [pc EXCEPT ![w] = "inflight"]
        /\ sent' = [sent EXCEPT ![u] = @ + 1]
        /\ last_dispatch' = [last_dispatch EXCEPT ![u[1]] = t]
        /\ min_dispatch_gap' = IF last_dispatch[u[1]] = 0 THEN min_dispatch_gap
                               ELSE MinGap(min_dispatch_gap, t - last_dispatch[u[1]])

\* item = await queue.get(); break on None; else the throttle test
WorkerGet(w) ==
    /\ w \in LiveWorkers
    /\ pc[w] = "get"
    /\ running[w[1]] = NoWorker
    /\ queue[w[1]] # <<>>
    /\ LET it == Head(queue[w[1]]) IN
        /\ queue' = [queue EXCEPT ![w[1]] = Tail(@)]
        /\ IF it = NoneItem
           THEN /\ pc' = [pc EXCEPT ![w] = "exit"]
                /\ UNCHANGED <<item, now, start_time, sent, last_dispatch, min_dispatch_gap>>
           ELSE /\ item' = [item EXCEPT ![w] = it]
                /\ IF NeedsThrottle(it)
                   THEN /\ pc' = [pc EXCEPT ![w] = "throttle_lock"]
                        /\ UNCHANGED <<now, start_time, sent, last_dispatch, min_dispatch_gap>>
                   ELSE Dispatch(w, it, now)
    /\ running' = [running EXCEPT ![w[1]] =
                      IF Head(queue[w[1]]) # NoneItem /\ NeedsThrottle(Head(queue[w[1]]))
                      THEN w ELSE NoWorker]
    /\ UNCHANGED <<cfgVars, mainVars, task_queue, unfinished, wake_at, result,
                   lockVars, last_request_time, stats, loaderVars, recorded,
                   min_update_gap, report, pctVars, toolVars>>

\* asyncio.wait_for(queue.get(), timeout=1.0) times out on an empty queue: continue
WorkerGetTimeout(w) ==
    /\ mode = "multi"
    /\ w \in LiveWorkers
    /\ pc[w] = "get"
    /\ queue[w[1]] = <<>>
    /\ UNCHANGED vars

\* async with self.interval_lock / with self.thread_interval_lock (line 238, 433)
ThrottleAcquire(w) ==
    /\ w \in LiveWorkers
    /\ pc[w] = "throttle_lock"
    /\ running[w[1]] = w
    /\ interval_lock = NoWorker
    /\ interval_lock' = w
    /\ pc' = [pc EXCEPT ![w] = "throttle"]
    /\ UNCHANGED <<running, cfgVars, now, mainVars, queueVars, item, wake_at, start_time,
                   result, stats_lock, last_request_time, stats, loaderVars,
                   histVars, report, pctVars, toolVars>>

\* ThrottleCompute with the sleep inside the with block: the lock stays held
ThrottleComputeHoldingLock(w) ==
    /\ w \in LiveWorkers
    /\ pc[w] = "throttle"
    /\ running[w[1]] = w
    /\ interval_lock = w
    /\ \E current_time \in ClockReads :
        LET sleep_time == SleepTime(last_request_time[item[w][1]], current_time) IN
        IF sleep_time > 0
        THEN /\ now' = current_time
             /\ wake_at' = [wake_at EXCEPT ![w] = current_time + sleep_time]
             /\ pc' = [pc EXCEPT ![w] = "sleep"]
             /\ UNCHANGED <<interval_lock, start_time, sent, last_dispatch,
                            min_dispatch_gap>>
        ELSE /\ Dispatch(w, item[w], current_time)
             /\ interval_lock' = NoWorker
             /\ UNCHANGED wake_at
    /\ running' = [running EXCEPT ![w[1]] = NoWorker]
    /\ UNCHANGED <<cfgVars, mainVars, queueVars, item, result, stats_lock,
                   last_request_time, stats, loaderVars, recorded, min_update_gap,
                   report, pctVars, toolVars>>

\* lines 240-252: compute sleep_time under the lock, release it, then sleep or send
ThrottleCompute(w) ==
    /\ w \in LiveWorkers
    /\ pc[w] = "throttle"
    /\ running[w[1]] = w
    /\ interval_lock = w
    /\ interval_lock' = NoWorker
    /\ \E current_time \in ClockReads :
        LET sleep_time == SleepTime(last_request_time[item[w][1]], current_time) IN
        IF sleep_time > 0
        THEN /\ now' = current_time
             /\ wake_at' = [wake_at EXCEPT ![w] = current_time + sleep_time]
             /\ pc' = [pc EXCEPT ![w] = "sleep"]
             /\ UNCHANGED <<start_time, sent, last_dispatch, min_dispatch_gap>>
        ELSE /\ Dispatch(w, item[w], current_time)
             /\ UNCHANGED wake_at
    /\ running' = [running EXCEPT ![w[1]] = NoWorker]
    /\ UNCHANGED <<cfgVars, mainVars, queueVars, item, result, stats_lock,
                   last_request_time, stats, loaderVars, recorded, min_update_gap,
                   report, pctVars, toolVars>>

\* await asyncio.sleep(sleep_time) ends, no earlier than wake_at; then send_request
WorkerWake(w) ==
    /\ w \in LiveWorkers
    /\ pc[w] = "sleep"
    /\ running[w[1]] = NoWorker
    /\ Dispatch(w, item[w], Max(now, wake_at[w]))
    /\ wake_at' = [wake_at EXCEPT ![w] = 0]
    /\ UNCHANGED <<running, cfgVars, mainVars, queueVars, item, result, lockVars,
                   last_request_time, stats, loaderVars, recorded, min_update_gap,
                   report, pctVars, toolVars>>

\* send_request returns: a response or an exception, elapsed = time.time() - start_time
RequestReturns(w) ==
    /\ w \in LiveWorkers
    /\ pc[w] = "inflight"
    /\ running[w[1]] = NoWorker
    /\ \E status \in responses, t \in ClockReads :
        /\ now' = t
        /\ result' = [result EXCEPT ![w] =
                         MakeResult(item[w][1], status, t - start_time[w])]
    /\ start_time' = [start_time EXCEPT ![w] = 0]
    /\ pc' = [pc EXCEPT ![w] = "update_lock"]
    /\ running' = [running EXCEPT ![w[1]] = w]
    /\ UNCHANGED <<cfgVars, mainVars, queueVars, item, wake_at,
                   lockVars, last_request_time, stats, loaderVars, histVars,
                   report, pctVars, toolVars>>

\* async with self.interval_lock / with self.thread_interval_lock (line 257, 448)
UpdateAcquire(w) ==
    /\ w \in LiveWorkers
    /\ pc[w] = "update_lock"
    /\ running[w[1]] = w
    /\ interval_lock = NoWorker
    /\ interval_lock' = w
    /\ pc' = [pc EXCEPT ![w] = "update"]
    /\ UNCHANGED <<running, cfgVars, now, mainVars, queueVars, item, wake_at, start_time,
                   result, stats_lock, last_request_time, stats, loaderVars,
                   histVars, report, pctVars, toolVars>>

\* main.py lines 158-164: the same fold; its stats keep no latencies
RecordOutcomeMainPy(s, r) ==
    [s EXCEPT !.total = @ + 1,
              !.success = IF r.success THEN @ + 1 ELSE @,
              !.failed = IF r.success THEN @ ELSE @ + 1,
              !.errors = IF r.success THEN @ ELSE Append(@, r)]

\* http_stress.py lines 257-258, 448-449: self.last_request_time[device_id] = time.time()
\* under the lock, which is then released
UpdateLastRequestTime(w) ==
    /\ mode \in {"single", "multi"}
    /\ w \in LiveWorkers
    /\ pc[w] = "update"
    /\ running[w[1]] = w
    /\ interval_lock = w
    /\ interval_lock' = NoWorker
    /\ \E t \in ClockReads :
        /\ now' = t
        /\ last_request_time' = [last_request_time EXCEPT ![item[w][1]] = t]
        /\ min_update_gap' = IF last_request_time[item[w][1]] = 0 THEN min_update_gap
                             ELSE MinGap(min_update_gap, t - last_request_time[item[w][1]])
    /\ pc' = [pc EXCEPT ![w] = "stats_lock"]
    /\ UNCHANGED <<running, cfgVars, mainVars, queueVars, item, wake_at, start_time, result,
                   stats_lock, stats, loaderVars, sent, recorded, last_dispatch,
                   min_dispatch_gap, report, pctVars, toolVars>>

\* async with self.stats_lock (line 261) / with self.thread_stats_lock (line 274)
StatsAcquire(w) ==
    /\ w \in LiveWorkers
    /\ pc[w] = "stats_lock"
    /\ running[w[1]] = w
    /\ stats_lock = NoWorker
    /\ stats_lock' = w
    /\ pc' = [pc EXCEPT ![w] = "stats_total"]
    /\ UNCHANGED <<running, cfgVars, now, mainVars, queueVars, item, wake_at, start_time,
                   result, interval_lock, last_request_time, stats, loaderVars,
                   histVars, report, pctVars, toolVars>>

\* StatsTotal with the with block ending after the first two statements
StatsTotalUnlocked(w) ==
    /\ w \in LiveWorkers
    /\ pc[w] = "stats_total"
    /\ running[w[1]] = w
    /\ stats_lock = w
    /\ stats' = [stats EXCEPT !.total = @ + 1,
                              !.latencies = Append(@, result[w].elapsed)]
    /\ recorded' = [recorded EXCEPT ![item[w]] = @ + 1]
    /\ stats_lock' = NoWorker
    /\ pc' = [pc EXCEPT ![w] = "stats_outcome"]
    /\ UNCHANGED <<running, cfgVars, now, mainVars, queueVars, item, wake_at, start_time,
                   result, interval_lock, last_request_time, loaderVars, sent,
                   last_dispatch, min_dispatch_gap, min_update_gap, report, pctVars, toolVars>>

\* lines 262-263, 275-276: total += 1; latencies.append(elapsed), the lock held
StatsTotal(w) ==
    /\ w \in LiveWorkers
    /\ pc[w] = "stats_total"
    /\ running[w[1]] = w
    /\ stats_lock = w
    /\ stats' = [stats EXCEPT !.total = @ + 1,
                              !.latencies = Append(@, result[w].elapsed)]
    /\ recorded' = [recorded EXCEPT ![item[w]] = @ + 1]
    /\ pc' = [pc EXCEPT ![w] = "stats_outcome"]
    /\ UNCHANGED <<running, cfgVars, now, mainVars, queueVars, item, wake_at, start_time,
                   result, lockVars, last_request_time, loaderVars, sent,
                   last_dispatch, min_dispatch_gap, min_update_gap, report, pctVars, toolVars>>

\* StatsOutcome for a worker that a failed request ends
StatsOutcomeFailureExits(w) ==
    /\ w \in LiveWorkers
    /\ pc[w] = "stats_outcome"
    /\ running[w[1]] = w
    /\ stats_lock = w
    /\ stats' = [stats EXCEPT
                    !.success = IF result[w].success THEN @ + 1 ELSE @,
                    !.failed = IF result[w].success THEN @ ELSE @ + 1,
                    !.errors = IF result[w].success THEN @ ELSE Append(@, result[w])]
    /\ stats_lock' = NoWorker
    /\ unfinished' = [unfinished EXCEPT ![w[1]] = @ - 1]
    /\ item' = [item EXCEPT ![w] = NoneItem]
    /\ result' = [result EXCEPT ![w] = NoResult]
    /\ pc' = [pc EXCEPT ![w] = IF result[w].success THEN "get" ELSE "exit"]
    /\ running' = [running EXCEPT ![w[1]] = NoWorker]
    /\ UNCHANGED <<cfgVars, now, mainVars, task_queue, queue, wake_at,
                   start_time, interval_lock, last_request_time,
                   loaderVars, histVars, report, pctVars, toolVars>>

\* lines 264-270, 277-281 and 454: success or failed += 1, errors.append(result),
\* the lock released, queue.task_done(), back to queue.get()
StatsOutcome(w) ==
    /\ w \in LiveWorkers
    /\ pc[w] = "stats_outcome"
    /\ running[w[1]] = w
    /\ stats_lock = w
    /\ stats' = [stats EXCEPT
                    !.success = IF result[w].success THEN @ + 1 ELSE @,
                    !.failed = IF result[w].success THEN @ ELSE @ + 1,
                    !.errors = IF result[w].success THEN @ ELSE Append(@, result[w])]
    /\ stats_lock' = NoWorker
    /\ unfinished' = [unfinished EXCEPT ![w[1]] = @ - 1]
    /\ item' = [item EXCEPT ![w] = NoneItem]
    /\ result' = [result EXCEPT ![w] = NoResult]
    /\ pc' = [pc EXCEPT ![w] = "get"]
    /\ running' = [running EXCEPT ![w[1]] = NoWorker]
    /\ UNCHANGED <<cfgVars, now, mainVars, task_queue, queue, wake_at,
                   start_time, interval_lock, last_request_time,
                   loaderVars, histVars, report, pctVars, toolVars>>

\* main.py lines 156-166: last_request_time written under the lock, then the stats
\* updated and task_done called with no await in between
MainPyUpdate(w) ==
    /\ mode = "main"
    /\ w \in LiveWorkers
    /\ pc[w] = "update"
    /\ running[w[1]] = w
    /\ interval_lock = w
    /\ interval_lock' = NoWorker
    /\ \E t \in ClockReads :
        /\ now' = t
        /\ last_request_time' = [last_request_time EXCEPT ![item[w][1]] = t]
        /\ min_update_gap' = IF last_request_time[item[w][1]] = 0 THEN min_update_gap
                             ELSE MinGap(min_update_gap, t - last_request_time[item[w][1]])
    /\ stats' = RecordOutcomeMainPy(stats, result[w])
    /\ recorded' = [recorded EXCEPT ![item[w]] = @ + 1]
    /\ unfinished' = [unfinished EXCEPT ![w[1]] = @ - 1]
    /\ item' = [item EXCEPT ![w] = NoneItem]
    /\ result' = [result EXCEPT ![w] = NoResult]
    /\ pc' = [pc EXCEPT ![w] = "get"]
    /\ running' = [running EXCEPT ![w[1]] = NoWorker]
    /\ UNCHANGED <<cfgVars, mainVars, task_queue, queue, wake_at, start_time,
                   stats_lock, loaderVars, sent, last_dispatch, min_dispatch_gap,
                   report, pctVars, toolVars>>

(***************************************************************************)
(* The driver of single-threaded mode: _run_single_threaded of             *)
(* http_stress.py and run of main.py.                                      *)
(***************************************************************************)
\* lines 303 and 324-327: the queue and the worker tasks are created
MainStart ==
    /\ mode \in {"single", "main"}
    /\ main_pc = "init"
    /\ main_pc' = "produce"
    /\ pc' = [w \in Workers |-> IF w \in LiveWorkers THEN "get" ELSE pc[w]]
    /\ UNCHANGED <<running, cfgVars, now, prod_idx, nones_put, queueVars, item, wake_at,
                   start_time, result, lockVars, last_request_time, stats,
                   loaderVars, histVars, report, pctVars, toolVars>>

\* MainPut with put_nowait in place of put: a unit that finds the queue full is dropped
MainPutDropWhenFull ==
    /\ mode \in {"single", "main"}
    /\ running[1] = NoWorker
    /\ main_pc = "produce"
    /\ prod_idx < total_requests
    /\ IF Len(queue[1]) < maxsize
       THEN /\ queue' = [queue EXCEPT ![1] = Append(@, UnitAt(prod_idx))]
            /\ unfinished' = [unfinished EXCEPT ![1] = @ + 1]
       ELSE UNCHANGED <<queue, unfinished>>
    /\ prod_idx' = prod_idx + 1
    /\ UNCHANGED <<cfgVars, now, main_pc, nones_put, task_queue, workerVars,
                   lockVars, last_request_time, stats, loaderVars, histVars,
                   report, pctVars, toolVars>>

\* MainPut on a queue without maxsize: it never blocks
MainPutUnbounded ==
    /\ mode \in {"single", "main"}
    /\ running[1] = NoWorker
    /\ main_pc = "produce"
    /\ prod_idx < total_requests
    /\ queue' = [queue EXCEPT ![1] = Append(@, UnitAt(prod_idx))]
    /\ unfinished' = [unfinished EXCEPT ![1] = @ + 1]
    /\ prod_idx' = prod_idx + 1
    /\ UNCHANGED <<cfgVars, now, main_pc, nones_put, task_queue, workerVars,
                   lockVars, last_request_time, stats, loaderVars, histVars,
                   report, pctVars, toolVars>>

\* lines 330-332: await queue.put((device_id, loop_index)); blocks while the queue is full
MainPut ==
    /\ mode \in {"single", "main"}
    /\ running[1] = NoWorker
    /\ main_pc = "produce"
    /\ prod_idx < total_requests
    /\ Len(queue[1]) < maxsize
    /\ queue' = [queue EXCEPT ![1] = Append(@, UnitAt(prod_idx))]
    /\ unfinished' = [unfinished EXCEPT ![1] = @ + 1]
    /\ prod_idx' = prod_idx + 1
    /\ UNCHANGED <<cfgVars, now, main_pc, nones_put, task_queue, workerVars,
                   lockVars, last_request_time, stats, loaderVars, histVars,
                   report, pctVars, toolVars>>

\* line 334: await queue.join() returns once every unit put was marked done
MainJoin ==
    /\ mode \in {"single", "main"}
    /\ running[1] = NoWorker
    /\ main_pc = "produce"
    /\ prod_idx = total_requests
    /\ unfinished[1] = 0
    /\ main_pc' = "sentinels"
    /\ UNCHANGED <<cfgVars, now, prod_idx, nones_put, queueVars, workerVars,
                   lockVars, last_request_time, stats, loaderVars, histVars,
                   report, pctVars, toolVars>>

\* MainPutNone that puts one sentinel for the whole pool
MainPutNoneOnce ==
    /\ mode \in {"single", "main"}
    /\ running[1] = NoWorker
    /\ main_pc = "sentinels"
    /\ nones_put < concurrent
    /\ Len(queue[1]) < maxsize
    /\ queue' = [queue EXCEPT ![1] = Append(@, NoneItem)]
    /\ unfinished' = [unfinished EXCEPT ![1] = @ + 1]
    /\ nones_put' = concurrent
    /\ UNCHANGED <<cfgVars, now, main_pc, prod_idx, task_queue, workerVars,
                   lockVars, last_request_time, stats, loaderVars, histVars,
                   report, pctVars, toolVars>>

\* lines 336-337: await queue.put(None), self.concurrent times
MainPutNone ==
    /\ mode \in {"single", "main"}
    /\ running[1] = NoWorker
    /\ main_pc = "sentinels"
    /\ nones_put < concurrent
    /\ Len(queue[1]) < maxsize
    /\ queue' = [queue EXCEPT ![1] = Append(@, NoneItem)]
    /\ unfinished' = [unfinished EXCEPT ![1] = @ + 1]
    /\ nones_put' = nones_put + 1
    /\ UNCHANGED <<cfgVars, now, main_pc, prod_idx, task_queue, workerVars,
                   lockVars, last_request_time, stats, loaderVars, histVars,
                   report, pctVars, toolVars>>

\* lines 338-342: await asyncio.gather(*workers), then self.print_stats(elapsed_time)
MainGather ==
    /\ mode \in {"single", "main"}
    /\ running[1] = NoWorker
    /\ main_pc = "sentinels"
    /\ nones_put = concurrent
    /\ \A w \in LiveWorkers : pc[w] = "exit"
    /\ main_pc' = "done"
    /\ report' = print_stats(stats)
    /\ UNCHANGED <<cfgVars, now, prod_idx, nones_put, queueVars, workerVars,
                   lockVars, last_request_time, stats, loaderVars, histVars,
                   pctVars, toolVars>>

(***************************************************************************)
(* Multi-threaded mode: _run_multi_threaded, _thread_async_worker and its  *)
(* task_loader.                                                            *)
(***************************************************************************)
\* lines 490-500: task_queue = Queue(), unbounded; every unit is put before a thread starts
MultiPut ==
    /\ mode = "multi"
    /\ main_pc = "init"
    /\ prod_idx < total_requests
    /\ task_queue' = Append(task_queue, UnitAt(prod_idx))
    /\ prod_idx' = prod_idx + 1
    /\ UNCHANGED <<cfgVars, now, main_pc, nones_put, queue, unfinished, workerVars,
                   lockVars, last_request_time, stats, loaderVars, histVars,
                   report, pctVars, toolVars>>

\* lines 506-513 and 378-411: the threads start; each creates its queue, its workers
\* and its task_loader
MultiStartThreads ==
    /\ mode = "multi"
    /\ main_pc = "init"
    /\ prod_idx = total_requests
    /\ main_pc' = "join"
    /\ pc' = [w \in Workers |-> IF w \in LiveWorkers THEN "get" ELSE pc[w]]
    /\ loader_pc' = [t \in ThreadIds |-> IF t \in LiveThreads THEN "get" ELSE loader_pc[t]]
    /\ UNCHANGED <<running, cfgVars, now, prod_idx, nones_put, queueVars, item, wake_at,
                   start_time, result, lockVars, last_request_time, stats,
                   loader_item, loader_nones, histVars, report, pctVars, toolVars>>

\* LoaderGet that reads the head of task_queue and leaves it there
LoaderGetNoPop(t) ==
    /\ mode = "multi"
    /\ t \in LiveThreads
    /\ running[t] = NoWorker
    /\ loader_pc[t] = "get"
    /\ IF task_queue # <<>>
       THEN /\ loader_item' = [loader_item EXCEPT ![t] = Head(task_queue)]
            /\ loader_pc' = [loader_pc EXCEPT ![t] = "put"]
       ELSE /\ loader_pc' = [loader_pc EXCEPT ![t] = "sleep1"]
            /\ UNCHANGED loader_item
    /\ UNCHANGED <<cfgVars, now, mainVars, queueVars, workerVars, lockVars,
                   last_request_time, stats, loader_nones, histVars, report, pctVars, toolVars>>

\* line 392: item = task_queue.get_nowait(); Empty is caught at line 397
LoaderGet(t) ==
    /\ mode = "multi"
    /\ t \in LiveThreads
    /\ running[t] = NoWorker
    /\ loader_pc[t] = "get"
    /\ IF task_queue # <<>>
       THEN /\ loader_item' = [loader_item EXCEPT ![t] = Head(task_queue)]
            /\ task_queue' = Tail(task_queue)
            /\ loader_pc' = [loader_pc EXCEPT ![t] = "put"]
       ELSE /\ loader_pc' = [loader_pc EXCEPT ![t] = "sleep1"]
            /\ UNCHANGED <<loader_item, task_queue>>
    /\ UNCHANGED <<cfgVars, now, mainVars, queue, unfinished, workerVars, lockVars,
                   last_request_time, stats, loader_nones, histVars, report, pctVars, toolVars>>

\* LoaderPut with put_nowait in place of put: QueueFull is caught by the except of
\* line 397 and the item is lost
LoaderPutNowait(t) ==
    /\ mode = "multi"
    /\ t \in LiveThreads
    /\ running[t] = NoWorker
    /\ loader_pc[t] = "put"
    /\ IF Len(queue[t]) < maxsize
       THEN /\ queue' = [queue EXCEPT ![t] = Append(@, loader_item[t])]
            /\ unfinished' = [unfinished EXCEPT ![t] = @ + 1]
            /\ loader_pc' = [loader_pc EXCEPT ![t] = "get"]
       ELSE /\ loader_pc' = [loader_pc EXCEPT ![t] = "sleep1"]
            /\ UNCHANGED <<queue, unfinished>>
    /\ loader_item' = [loader_item EXCEPT ![t] = NoneItem]
    /\ UNCHANGED <<cfgVars, now, mainVars, task_queue, workerVars, lockVars,
                   last_request_time, stats, loader_nones, histVars,
                   report, pctVars, toolVars>>

\* lines 395-396: await async_queue.put(item); blocks while the queue is full
LoaderPut(t) ==
    /\ mode = "multi"
    /\ t \in LiveThreads
    /\ running[t] = NoWorker
    /\ loader_pc[t] = "put"
    /\ Len(queue[t]) < maxsize
    /\ queue' = [queue EXCEPT ![t] = Append(@, loader_item[t])]
    /\ unfinished' = [unfinished EXCEPT ![t] = @ + 1]
    /\ loader_item' = [loader_item EXCEPT ![t] = NoneItem]
    /\ loader_pc' = [loader_pc EXCEPT ![t] = "get"]
    /\ UNCHANGED <<cfgVars, now, mainVars, task_queue, workerVars, lockVars,
                   last_request_time, stats, loader_nones, histVars,
                   report, pctVars, toolVars>>

\* LoaderSleep1 that looks at task_queue only
LoaderSleep1SharedOnly(t) ==
    /\ mode = "multi"
    /\ t \in LiveThreads
    /\ running[t] = NoWorker
    /\ loader_pc[t] = "sleep1"
    /\ loader_pc' = [loader_pc EXCEPT ![t] =
                        IF task_queue = <<>> THEN "sleep2" ELSE "get"]
    /\ UNCHANGED <<cfgVars, now, mainVars, queueVars, workerVars, lockVars,
                   last_request_time, stats, loader_item, loader_nones, histVars,
                   report, pctVars, toolVars>>

\* lines 399-401: after sleep(0.01), are task_queue and async_queue both empty?
LoaderSleep1(t) ==
    /\ mode = "multi"
    /\ t \in LiveThreads
    /\ running[t] = NoWorker
    /\ loader_pc[t] = "sleep1"
    /\ loader_pc' = [loader_pc EXCEPT ![t] =
                        IF task_queue = <<>> /\ queue[t] = <<>> THEN "sleep2" ELSE "get"]
    /\ UNCHANGED <<cfgVars, now, mainVars, queueVars, workerVars, lockVars,
                   last_request_time, stats, loader_item, loader_nones, histVars,
                   report, pctVars, toolVars>>

\* lines 403-405: after sleep(0.1), break if task_queue is still empty
LoaderSleep2(t) ==
    /\ mode = "multi"
    /\ t \in LiveThreads
    /\ running[t] = NoWorker
    /\ loader_pc[t] = "sleep2"
    /\ loader_pc' = [loader_pc EXCEPT ![t] =
                        IF task_queue = <<>> THEN "stop" ELSE "get"]
    /\ UNCHANGED <<cfgVars, now, mainVars, queueVars, workerVars, lockVars,
                   last_request_time, stats, loader_item, loader_nones, histVars,
                   report, pctVars, toolVars>>

\* lines 408-409: await async_queue.put(None), self.concurrent times
LoaderPutNone(t) ==
    /\ mode = "multi"
    /\ t \in LiveThreads
    /\ running[t] = NoWorker
    /\ loader_pc[t] = "stop"
    /\ loader_nones[t] < concurrent
    /\ Len(queue[t]) < maxsize
    /\ queue' = [queue EXCEPT ![t] = Append(@, NoneItem)]
    /\ unfinished' = [unfinished EXCEPT ![t] = @ + 1]
    /\ loader_nones' = [loader_nones EXCEPT ![t] = @ + 1]
    /\ loader_pc' = [loader_pc EXCEPT ![t] =
                        IF loader_nones[t] + 1 = concurrent THEN "done" ELSE "stop"]
    /\ UNCHANGED <<cfgVars, now, mainVars, task_queue, workerVars, lockVars,
                   last_request_time, stats, loader_item, histVars, report, pctVars, toolVars>>

\* line 414 in every thread, lines 516-522 in the main thread: every thread's gather
\* has returned, the threads are joined, the statistics printed
MultiJoin ==
    /\ mode = "multi"
    /\ main_pc = "join"
    /\ \A t \in LiveThreads : loader_pc[t] = "done"
    /\ \A w \in LiveWorkers : pc[w] = "exit"
    /\ main_pc' = "done"
    /\ report' = print_stats(stats)
    /\ UNCHANGED <<cfgVars, now, prod_idx, nones_put, queueVars, workerVars,
                   lockVars, last_request_time, stats, loaderVars, histVars,
                   pctVars, toolVars>>

(***************************************************************************)
(* Specifications.                                                         *)
(***************************************************************************)
\* the steps of a worker coroutine of http_stress.py
WorkerStep(w) ==
    \/ WorkerGet(w)
    \/ ThrottleAcquire(w)
    \/ ThrottleCompute(w)
    \/ WorkerWake(w)
    \/ RequestReturns(w)
    \/ UpdateAcquire(w)
    \/ UpdateLastRequestTime(w)
    \/ StatsAcquire(w)
    \/ StatsTotal(w)
    \/ StatsOutcome(w)

\* the steps of the driver in single-threaded mode
DriverStep ==
    \/ MainStart
    \/ MainPut
    \/ MainJoin
    \/ MainPutNone
    \/ MainGather

\* the steps of thread t's task_loader
LoaderStep(t) ==
    \/ LoaderGet(t)
    \/ LoaderPut(t)
    \/ LoaderSleep1(t)
    \/ LoaderSleep2(t)
    \/ LoaderPutNone(t)

\* the steps of multi-threaded mode that single-threaded mode does not have
MultiStep ==
    \/ MultiPut
    \/ MultiStartThreads
    \/ MultiJoin
    \/ \E t \in ThreadIds : LoaderStep(t)
    \/ \E w \in Workers : WorkerGetTimeout(w)

NextMulti ==
    \/ MultiStep
    \/ \E w \in Workers : WorkerStep(w)

SpecMulti == InitMulti /\ [][NextMulti]_vars

\* every run of http_stress.py and of main.py
Init == InitSingle \/ InitMain \/ InitMulti \/ InitFailing

Next ==
    \/ DriverStep
    \/ MultiStep
    \/ \E w \in Workers : WorkerStep(w)
    \/ \E w \in Workers : MainPyUpdate(w)

Spec == Init /\ [][Next]_vars

\* Runs of two units for the question of termination: one device twice or two
\* devices once, in every mode
LiveShapes == {<<1, 2>>, <<2, 1>>}

\* the target answers such a run with a success or with an exception; the threads
\* of a multi-threaded run, whose steps do not depend on the answer, get successes
LiveResponses(m) == IF m = "multi" THEN {200} ELSE {200, 0}

InitLive ==
    \E m \in {"single", "main", "multi"}, s \in LiveShapes, c \in 1..MaxConcurrent,
       tm \in Timings :
        /\ m = "multi" /\ tm[1] > 0 => c = 1
        /\ InitState(m, s[1], s[2], c, IF m = "multi" THEN MaxThreads ELSE 1,
                     tm[1], tm[2], LiveResponses(m), <<>>)

\* The event loop runs a coroutine that is ready (asyncio runs its ready callbacks
\* in order), the operating system runs a thread that can run, and every request
\* returns (send_request has a total timeout, line 366): the driver, the
\* task_loaders and the workers each take a step they can take.
Fairness ==
    /\ WF_vars(DriverStep \/ MultiPut \/ MultiStartThreads \/ MultiJoin)
    /\ WF_vars(\E t \in ThreadIds : LoaderStep(t))
    /\ WF_vars(\E w \in Workers : WorkerStep(w) \/ MainPyUpdate(w))

SpecLive == InitLive /\ [][Next]_vars /\ Fairness

\* a worker sleeps until after the last clock value of the model
ClockOut == \E w \in LiveWorkers : pc[w] = "sleep" /\ wake_at[w] > max_time

(***************************************************************************)
(* The tools as processes: main() of http_stress.py and main.py, with      *)
(* load_device_ids of utils.py and the user's interrupt.                   *)
(***************************************************************************)
\* utils.load_device_ids (lines 26-53; main.py lines 52-76) on a file that exists or
\* not and holds n identifiers, asked for the first count of them (count >= 1)
load_device_ids(exists, n, count) ==
    IF ~exists THEN "FileNotFoundError"
    ELSE IF n = 0 THEN "ValueError"
    ELSE IF n < count THEN "ValueError"
    ELSE "ok"

\* the modes of the HTTP tool
HttpModes == {"single", "main", "multi"}

\* A tester whose run() is about to call load_device_ids
InitRun ==
    \E m \in HttpModes, s \in LiveShapes, c \in 1..MaxConcurrent, tm \in Timings :
        /\ m = "multi" /\ tm[1] > 0 => c = 1
        /\ InitTesterAt("load", m, s[1], s[2], c, IF m = "multi" THEN MaxThreads ELSE 1,
                        tm[1], tm[2], LiveResponses(m), <<>>)
        /\ idle_timeout = 1
        /\ timely = TRUE
        /\ KafkaIdle
        /\ WriterIdle
        /\ ProcIdle

\* LoadIds for a run() that creates its workers before it loads the identifiers
LoadIdsAfterWorkers ==
    /\ mode \in HttpModes
    /\ main_pc = "load"
    /\ \E exists \in BOOLEAN, n \in 0..MaxUnits :
        IF load_device_ids(exists, n, device_count) = "ok"
        THEN /\ main_pc' = "init"
             /\ UNCHANGED <<exit_code, pc>>
        ELSE /\ main_pc' = "failed"
             /\ exit_code' = 1
             /\ pc' = [w \in Workers |-> IF w \in LiveWorkers THEN "get" ELSE pc[w]]
    /\ UNCHANGED <<cfgVars, now, prod_idx, nones_put, queueVars, item, wake_at,
                   start_time, result, running, lockVars, last_request_time, stats,
                   loaderVars, histVars, report, pctVars, kafkaVars, writerVars, prints,
                   client_pc, auxVars>>

\* self.load_device_ids(), the first statement of _run_single_threaded (line 286), of
\* _run_multi_threaded (line 467) and of run() of main.py (line 171).  What it raises
\* leaves asyncio.run and main() returns 1 (lines 683-685).
LoadIds ==
    /\ mode \in HttpModes
    /\ main_pc = "load"
    /\ \E exists \in BOOLEAN, n \in 0..MaxUnits :
        IF load_device_ids(exists, n, device_count) = "ok"
        THEN /\ main_pc' = "init"
             /\ UNCHANGED exit_code
        ELSE /\ main_pc' = "failed"
             /\ exit_code' = 1
    /\ UNCHANGED <<cfgVars, now, prod_idx, nones_put, queueVars, workerVars, lockVars,
                   last_request_time, stats, loaderVars, histVars, report, pctVars,
                   kafkaVars, writerVars, prints,
                   client_pc, auxVars>>

\* The user's interrupt.  asyncio.run cancels the main task, which is at an await,
\* and then the worker tasks; KeyboardInterrupt leaves asyncio.run and main()
\* returns 0 (lines 681-682, 687).  In multi-threaded mode the main thread is in
\* thread.join() and the threads go on.
KeyboardInterrupt ==
    /\ mode \in HttpModes
    /\ main_pc \in {"load", "init", "produce", "sentinels", "join"}
    /\ mode # "multi" => running[1] = NoWorker
    /\ main_pc' = "interrupted"
    /\ exit_code' = 0
    /\ pc' = [w \in Workers |->
                IF mode # "multi" /\ w \in LiveWorkers /\ pc[w] \notin {"idle", "exit"}
                THEN "cancelled" ELSE pc[w]]
    /\ UNCHANGED <<cfgVars, now, prod_idx, nones_put, queueVars, item, wake_at,
                   start_time, result, running, lockVars, last_request_time, stats,
                   loaderVars, histVars, report, pctVars, kafkaVars, writerVars, prints,
                   client_pc, auxVars>>

\* main() of the HTTP tool has returned
HttpOver == mode \in HttpModes /\ main_pc \in {"done", "failed", "interrupted"}

NextRun ==
    \/ Next
    \/ LoadIds
    \/ KeyboardInterrupt

SpecRun == InitRun /\ [][NextRun]_vars

(***************************************************************************)
(* The percentiles of a list of latencies.                                 *)
(***************************************************************************)
\* self.calculate_percentile(latencies, p), kafka_consumer.py lines 454-457
CalcPercentile ==
    /\ mode = "pct"
    /\ \E p \in Percentiles :
        /\ pct_p' = p
        /\ pct_result' = calculate_percentile(pct_data, p)
    /\ pct_calls' = Min(pct_calls + 1, MaxCalls)
    /\ UNCHANGED <<cfgVars, now, mainVars, queueVars, workerVars, lockVars,
                   last_request_time, stats, loaderVars, histVars, report, pct_data,
                   pct_orig, pct_stats, toolVars>>

\* client.get_stats(), mqtt_client.py line 329
GetStats ==
    /\ mode = "pct"
    /\ pct_stats' = get_stats(pct_data)
    /\ UNCHANGED <<cfgVars, now, mainVars, queueVars, workerVars, lockVars,
                   last_request_time, stats, loaderVars, histVars, report, pct_data,
                   pct_p, pct_result, pct_orig, pct_calls, toolVars>>

\* print_stats() of http_stress.py on the latencies
PctPrintStats ==
    /\ mode = "pct"
    /\ ~report.printed
    /\ report' = print_stats(stats)
    /\ UNCHANGED <<cfgVars, now, mainVars, queueVars, workerVars, lockVars,
                   last_request_time, stats, loaderVars, histVars, pctVars, toolVars>>

NextPct ==
    \/ CalcPercentile
    \/ GetStats
    \/ PctPrintStats

SpecPct == InitPct /\ [][NextPct]_vars

(***************************************************************************)
(* The Kafka consumer: consume_messages, consume_loop, process_message,    *)
(* the idle-timeout watchdog _timeout_checker, and stop().                 *)
(*                                                                         *)
(* The clock advances by Tick, and time.time() reads now.  With timely, a  *)
(* task whose sleep has ended, or that has a cancellation to receive, runs *)
(* before the clock advances; without, it runs at any later time.          *)
(***************************************************************************)
\* the idle timeouts of the runs, in ticks: shorter and longer than the poll period
IdleTimeouts == {1, 3}

\* the messages the consumer delivers: with a timestamp and a tx_start_ts header,
\* with neither, and one whose processing raises before anything is recorded
MessageKinds == {"full", "plain", "bad"}

\* A consumer about to run consume_messages
InitKafka ==
    /\ InitTester("kafka", 1, 1, 1, 1, 0, StartTime + KafkaSpan, Responses, <<>>)
    /\ idle_timeout \in IdleTimeouts
    /\ timely \in BOOLEAN
    /\ KafkaIdle
    /\ WriterIdle
    /\ ProcIdle

\* stop() without the test of self.running of line 419
StopEffectNotGuarded ==
    /\ consumer_running' = FALSE
    /\ csv_writer_running' = FALSE
    /\ writer_cancel' = (writer_pc \notin {"none", "done", "cancelled"})
    /\ wd_cancel' = (wd_pc \notin {"none", "ended"})

\* KafkaConsumerManager.stop (lines 417-427)
StopEffect ==
    IF ~consumer_running
    THEN UNCHANGED <<consumer_running, csv_writer_running, writer_cancel, wd_cancel>>
    ELSE /\ consumer_running' = FALSE
         /\ csv_writer_running' = FALSE
         /\ writer_cancel' = (writer_pc \notin {"none", "done", "cancelled"})
         /\ wd_cancel' = (wd_pc \notin {"none", "ended"})

\* a task of the consumer has something to do at the present time
KafkaTaskDue ==
    \/ wd_pc = "new"
    \/ wd_pc = "sleep" /\ now >= wd_wake
    \/ wd_pc \in {"sleep", "stopping"} /\ wd_cancel
    \/ main_pc = "wait" /\ (wd_pc = "ended" \/ loop_pc \in {"ended", "failed"})

\* half a second passes
KafkaTick ==
    /\ mode = "kafka"
    /\ now < max_time
    /\ timely => ~KafkaTaskDue
    /\ now' = now + 1
    /\ UNCHANGED <<cfgVars, mainVars, stressVars, pctVars, toolVars>>

\* consume_messages lines 352-385: the tasks are created, start_consuming_time is set,
\* and consume_messages waits for the first of consume_task and timeout_check_task
ConsumeStart ==
    /\ mode = "kafka"
    /\ main_pc = "init"
    /\ main_pc' = "wait"
    /\ start_consuming_time' = now
    /\ activity' = now
    /\ wd_pc' = "new"
    /\ loop_pc' = "iter"
    /\ UNCHANGED <<cfgVars, now, stressVars, pctVars, procVars, writerVars, idle_timeout, timely,
                   consumer_running, last_message_time, wd_wake, wd_cancel, kstats,
                   arrivals, discarded, signals, last_success_time, fire_count,
                   fired_at, fire_idle, fire_stats>>

\* _timeout_checker lines 78-86: start_consuming_time is set and running is true,
\* so the first asyncio.sleep(1.0) begins; cancelled before it ran, or with running
\* false (lines 81-82), the task ends
WatchdogStart ==
    /\ mode = "kafka"
    /\ wd_pc = "new"
    /\ IF wd_cancel \/ ~consumer_running
       THEN /\ wd_pc' = "ended"
            /\ wd_cancel' = FALSE
            /\ UNCHANGED wd_wake
       ELSE /\ wd_pc' = "sleep"
            /\ wd_wake' = now + PollTicks
            /\ UNCHANGED wd_cancel
    /\ UNCHANGED <<cfgVars, now, mainVars, stressVars, pctVars, procVars, writerVars, idle_timeout,
                   timely, consumer_running, start_consuming_time, last_message_time,
                   loop_pc, kstats, arrivals, discarded, signals, activity,
                   last_success_time, fire_count, fired_at, fire_idle, fire_stats>>

\* IdleTime measured from start_consuming_time whatever was received
IdleTimeFromStart(current_time) == current_time - start_consuming_time

\* the idle time the watchdog computes at current_time (lines 91-92, 112)
IdleTime(current_time) ==
    IF last_message_time = NoTime
    THEN current_time - start_consuming_time
    ELSE current_time - last_message_time

\* WatchdogPoll without the break and with a stop() that leaves the watchdog's own
\* task alone: after the timeout shutdown the loop sleeps again
WatchdogPollNoBreak ==
    /\ mode = "kafka"
    /\ wd_pc = "sleep"
    /\ ~wd_cancel
    /\ now >= wd_wake
    /\ wd_wake' = now + PollTicks
    /\ IF IdleTime(now) >= idle_timeout
       THEN /\ consumer_running' = FALSE
            /\ csv_writer_running' = FALSE
            /\ fire_count' = fire_count + 1
            /\ fired_at' = now
            /\ fire_idle' = now - activity
            /\ fire_stats' = kstats
       ELSE UNCHANGED <<consumer_running, csv_writer_running, fire_count, fired_at,
                        fire_idle, fire_stats>>
    /\ UNCHANGED <<cfgVars, now, mainVars, stressVars, pctVars, procVars, idle_timeout, timely,
                   start_consuming_time, last_message_time, loop_pc, kstats, arrivals,
                   discarded, signals, activity, last_success_time, wd_pc, wd_cancel,
                   writer_pc, writer_cancel, writer_deadline, data_queue, buffer, sink,
                   helper, enqueued, at_stop, stops, buffer_since, write_failed>>

\* WatchdogPoll for a watchdog whose poll counts as activity: a poll that does not
\* fire sets last_message_time
WatchdogPollTouches ==
    /\ mode = "kafka"
    /\ wd_pc = "sleep"
    /\ ~wd_cancel
    /\ now >= wd_wake
    /\ IF IdleTime(now) >= idle_timeout
       THEN /\ StopEffect
            /\ wd_pc' = "stopping"
            /\ fire_count' = fire_count + 1
            /\ fired_at' = now
            /\ fire_idle' = now - activity
            /\ fire_stats' = kstats
            /\ UNCHANGED <<wd_wake, last_message_time>>
       ELSE /\ wd_wake' = now + PollTicks
            /\ last_message_time' = now
            /\ UNCHANGED <<consumer_running, csv_writer_running, writer_cancel,
                           wd_cancel, wd_pc, fire_count, fired_at, fire_idle,
                           fire_stats>>
    /\ UNCHANGED <<cfgVars, now, mainVars, stressVars, pctVars, procVars, idle_timeout, timely,
                   start_consuming_time, loop_pc, kstats, arrivals,
                   discarded, signals, activity, last_success_time,
                   writer_pc, writer_deadline, data_queue, buffer, sink, helper,
                   enqueued, at_stop, stops, buffer_since, write_failed>>

\* _timeout_checker lines 86-122: the sleep is over; current_time = time.time(); with
\* idle_time >= idle_timeout_seconds stop() is called and the task awaits
\* consumer.stop(), else it sleeps again
WatchdogPoll ==
    /\ mode = "kafka"
    /\ wd_pc = "sleep"
    /\ ~wd_cancel
    /\ now >= wd_wake
    /\ IF IdleTime(now) >= idle_timeout
       THEN /\ StopEffect
            /\ wd_pc' = "stopping"
            /\ fire_count' = fire_count + 1
            /\ fired_at' = now
            /\ fire_idle' = now - activity
            /\ fire_stats' = kstats
            /\ UNCHANGED wd_wake
       ELSE /\ wd_wake' = now + PollTicks
            /\ UNCHANGED <<consumer_running, csv_writer_running, writer_cancel,
                           wd_cancel, wd_pc, fire_count, fired_at, fire_idle,
                           fire_stats>>
    /\ UNCHANGED <<cfgVars, now, mainVars, stressVars, pctVars, procVars, idle_timeout, timely,
                   start_consuming_time, last_message_time, loop_pc, kstats, arrivals,
                   discarded, signals, activity, last_success_time,
                   writer_pc, writer_deadline, data_queue, buffer, sink, helper,
                   enqueued, at_stop, stops, buffer_since, write_failed>>

\* the cancellation stop() requested reaches the watchdog at its await (the sleep of
\* line 86, or consumer.stop() of lines 106 and 119): CancelledError ends the task
WatchdogCancelled ==
    /\ mode = "kafka"
    /\ wd_pc \in {"sleep", "stopping"}
    /\ wd_cancel
    /\ wd_pc' = "ended"
    /\ wd_cancel' = FALSE
    /\ UNCHANGED <<cfgVars, now, mainVars, stressVars, pctVars, procVars, writerVars, idle_timeout,
                   timely, consumer_running, start_consuming_time, last_message_time,
                   wd_wake, loop_pc, kstats, arrivals, discarded, signals, activity,
                   last_success_time, fire_count, fired_at, fire_idle, fire_stats>>

\* process_message lines 252-260: the record put on the queue for message number n:
\* the timestamp and the two latencies (each stands for a value that is not 0 when
\* the message has it), and 0.0 for each when the message has neither a timestamp
\* nor a tx_start_ts header
QueuedRecord(n, kind) ==
    [message |-> n,
     timestamp |-> IF kind = "full" THEN n ELSE 0,
     latency |-> IF kind = "full" THEN n ELSE 0,
     tx_latency |-> IF kind = "full" THEN n ELSE 0]

\* ProcessMessage for a process_message that counts a message only when it has a
\* timestamp
ProcessMessageTimedOnly(st, n, kind) ==
    IF kind = "bad"
    THEN [st EXCEPT !.errors = Append(@, n)]
    ELSE [st EXCEPT
            !.message_timestamp_latency = IF kind = "full" THEN Append(@, n) ELSE @,
            !.tx_start_latency = IF kind = "full" THEN Append(@, n) ELSE @,
            !.messages_received = IF kind = "full" THEN @ + 1 ELSE @]

\* process_message (lines 186-274) of message number n of the given kind, on self.stats
ProcessMessage(st, n, kind) ==
    IF kind = "bad"
    THEN [st EXCEPT !.errors = Append(@, n)]
    ELSE [st EXCEPT
            !.message_timestamp_latency = IF kind = "full" THEN Append(@, n) ELSE @,
            !.tx_start_latency = IF kind = "full" THEN Append(@, n) ELSE @,
            !.messages_received = @ + 1]

\* MessageArrives without the test of self.running (lines 366-367)
MessageArrivesWhileStopped ==
    /\ mode = "kafka"
    /\ loop_pc = "iter"
    /\ arrivals < MaxMessages
    /\ arrivals' = arrivals + 1
    /\ last_message_time' = now
    /\ activity' = now
    /\ \E kind \in MessageKinds :
        /\ kstats' = ProcessMessage(kstats, arrivals + 1, kind)
        /\ IF kind = "bad"
           THEN UNCHANGED <<data_queue, enqueued, last_success_time, put_log>>
           ELSE /\ data_queue' = Append(data_queue, arrivals + 1)
                /\ put_log' = Append(put_log, QueuedRecord(arrivals + 1, kind))
                /\ enqueued' = enqueued + 1
                /\ last_success_time' = now
    /\ UNCHANGED <<loop_pc, discarded>>
    /\ UNCHANGED <<cfgVars, now, mainVars, stressVars, pctVars, exit_code, prints, client_pc,
                   client_stats, put_tasks, call_args, call_result, idle_timeout, timely,
                   consumer_running, start_consuming_time, wd_pc, wd_wake, wd_cancel,
                   signals, fire_count, fired_at, fire_idle, fire_stats,
                   csv_writer_running, writer_pc, writer_cancel, writer_deadline,
                   buffer, sink, helper, at_stop, stops, buffer_since, write_failed>>

\* consume_loop lines 365-369: the consumer delivers a message; the loop ends if
\* running is false, else process_message runs to its end (it never suspends: the
\* queue it puts on has no capacity limit)
MessageArrives ==
    /\ mode = "kafka"
    /\ loop_pc = "iter"
    /\ arrivals < MaxMessages
    /\ arrivals' = arrivals + 1
    /\ IF ~consumer_running
       THEN /\ loop_pc' = "ended"
            /\ discarded' = discarded + 1
            /\ UNCHANGED <<last_message_time, activity, kstats, data_queue, enqueued,
                           last_success_time, put_log>>
       ELSE /\ last_message_time' = now
            /\ activity' = now
            /\ \E kind \in MessageKinds :
                /\ kstats' = ProcessMessage(kstats, arrivals + 1, kind)
                /\ IF kind = "bad"
                   THEN UNCHANGED <<data_queue, enqueued, last_success_time, put_log>>
                   ELSE /\ data_queue' = Append(data_queue, arrivals + 1)
                        /\ put_log' = Append(put_log, QueuedRecord(arrivals + 1, kind))
                        /\ enqueued' = enqueued + 1
                        /\ last_success_time' = now
            /\ UNCHANGED <<loop_pc, discarded>>
    /\ UNCHANGED <<cfgVars, now, mainVars, stressVars, pctVars, exit_code, prints, client_pc,
                   client_stats, put_tasks, call_args, call_result, idle_timeout, timely,
                   consumer_running, start_consuming_time, wd_pc, wd_wake, wd_cancel,
                   signals, fire_count, fired_at, fire_idle, fire_stats,
                   csv_writer_running, writer_pc, writer_cancel, writer_deadline,
                   buffer, sink, helper, at_stop, stops, buffer_since, write_failed>>

\* signal_handler (lines 597-603): stop() is called from outside the tasks
SignalStop ==
    /\ mode = "kafka"
    /\ main_pc = "wait"
    /\ signals < MaxSignals
    /\ signals' = signals + 1
    /\ StopEffect
    /\ UNCHANGED <<cfgVars, now, mainVars, stressVars, pctVars, procVars, idle_timeout, timely,
                   start_consuming_time, last_message_time, wd_pc, wd_wake, loop_pc,
                   kstats, arrivals, discarded, activity, last_success_time,
                   fire_count, fired_at, fire_idle, fire_stats,
                   writer_pc, writer_deadline, data_queue, buffer, sink, helper,
                   enqueued, at_stop, stops, buffer_since, write_failed>>

\* ConsumeFinish for a consume_messages that returns when the first task is done and
\* leaves the other pending
ConsumeFinishNoCancel ==
    /\ mode = "kafka"
    /\ main_pc = "wait"
    /\ wd_pc = "ended" \/ loop_pc \in {"ended", "failed"}
    /\ main_pc' = "done"
    /\ UNCHANGED <<wd_pc, wd_cancel, loop_pc>>
    /\ UNCHANGED <<cfgVars, now, prod_idx, nones_put, stressVars, pctVars, procVars, writerVars,
                   idle_timeout, timely, consumer_running, start_consuming_time,
                   last_message_time, wd_wake, kstats, arrivals, discarded, signals,
                   activity, last_success_time, fire_count, fired_at, fire_idle,
                   fire_stats>>

\* consume_messages lines 382-393: one of the two tasks is done; the other is
\* cancelled and awaited
ConsumeFinish ==
    /\ mode = "kafka"
    /\ main_pc = "wait"
    /\ wd_pc = "ended" \/ loop_pc \in {"ended", "failed"}
    /\ main_pc' = "done"
    /\ wd_pc' = "ended"
    /\ wd_cancel' = FALSE
    /\ loop_pc' = IF loop_pc = "failed" THEN "failed" ELSE "ended"
    /\ UNCHANGED <<cfgVars, now, prod_idx, nones_put, stressVars, pctVars, procVars, writerVars,
                   idle_timeout, timely, consumer_running, start_consuming_time,
                   last_message_time, wd_wake, kstats, arrivals, discarded, signals,
                   activity, last_success_time, fire_count, fired_at, fire_idle,
                   fire_stats>>

NextKafka ==
    \/ KafkaTick
    \/ ConsumeStart
    \/ WatchdogStart
    \/ WatchdogPoll
    \/ WatchdogCancelled
    \/ MessageArrives
    \/ SignalStop
    \/ ConsumeFinish

SpecKafka == InitKafka /\ [][NextKafka]_vars

(***************************************************************************)
(* The CSV writer: _csv_writer_worker of kafka_consumer.py and of          *)
(* mqtt_client.py, the threads asyncio.to_thread runs write_header and     *)
(* write_batch in, and stop() / stop_all().                                *)
(*                                                                         *)
(* A thread asyncio.to_thread started keeps running when the task that     *)
(* awaits it is cancelled.  write_batch is two steps of its thread: the    *)
(* rows of the buffer are appended to the file, then the buffer is cleared.*)
(***************************************************************************)
\* The writer task at its first await: write_header runs in its thread
InitWriter ==
    /\ InitTester("writer", 1, 1, 1, 1, 0, StartTime + WriterSpan, Responses, <<>>)
    /\ idle_timeout = 1
    /\ timely \in BOOLEAN
    /\ KafkaIdle
    /\ ProcIdle
    /\ csv_writer_running = TRUE
    /\ writer_pc = "header"
    /\ writer_cancel = FALSE
    /\ writer_deadline = NoTime
    /\ data_queue = <<>>
    /\ buffer = <<>>
    /\ sink = <<>>
    /\ helper = [h \in Helpers |-> IF h = "header" THEN "run" ELSE "idle"]
    /\ enqueued = 0
    /\ at_stop = {}
    /\ stops = 0
    /\ buffer_since = NoTime
    /\ write_failed = 0

\* the runs a writer task takes part in: the writer on its own, the consumer of
\* kafka_consumer.py and the clients of mqtt_client.py
WriterModes == {"writer", "kafka", "mqtt"}

\* the elements of a sequence
Range(seq) == {seq[i] : i \in DOMAIN seq}

\* the writer task has ended
WriterEnded == writer_pc \in {"done", "cancelled"}

\* the writer task can take a step at the present time
WriterDue ==
    \/ writer_cancel /\ ~WriterEnded
    \/ writer_pc = "header" /\ helper["header"] = "done"
    \/ writer_pc = "wait" /\ (data_queue # <<>> \/ now >= writer_deadline)
    \/ writer_pc \in {"flush_timeout", "flush_size"} /\ helper["loop"] \in {"done", "failed"}
    \/ writer_pc = "final" /\ helper["final"] \in {"done", "failed"}

\* half a second passes
WriterTick ==
    /\ mode = "writer"
    /\ now < max_time
    /\ timely => ~WriterDue
    /\ now' = now + 1
    /\ UNCHANGED <<cfgVars, mainVars, stressVars, pctVars, toolVars>>

\* await self.data_queue.put(...), kafka_consumer.py line 259; the put task of
\* mqtt_client.py lines 93-97: record number enqueued + 1 enters the queue
Enqueue ==
    /\ mode = "writer"
    /\ csv_writer_running
    /\ enqueued < MaxRecords
    /\ enqueued' = enqueued + 1
    /\ data_queue' = Append(data_queue, enqueued + 1)
    /\ UNCHANGED <<cfgVars, now, mainVars, stressVars, pctVars, procVars, kafkaVars,
                   csv_writer_running, writer_pc, writer_cancel, writer_deadline,
                   buffer, sink, helper, at_stop, stops, buffer_since, write_failed>>

\* write_header in its thread (lines 127-130): open(..., "w") empties the file, then
\* the header row is written
HeaderWritten ==
    /\ mode \in WriterModes
    /\ helper["header"] = "run"
    /\ sink' = <<HeaderRow>>
    /\ helper' = [helper EXCEPT !["header"] = "done"]
    /\ UNCHANGED <<cfgVars, now, mainVars, stressVars, pctVars, procVars, kafkaVars,
                   csv_writer_running, writer_pc, writer_cancel, writer_deadline,
                   data_queue, buffer, enqueued, at_stop, stops, buffer_since,
                   write_failed>>

\* the time the buffer became non-empty, when the buffer becomes buf
Since(buf) ==
    IF buf = <<>> THEN NoTime ELSE IF buffer = <<>> THEN now ELSE buffer_since

\* lines 174-184, after the loop, with buffer buf, queue q and helper threads hlp: the
\* writer takes what the queue holds and, if the buffer is not empty, awaits a
\* last write_batch; else the task is done
Drain(buf, q, hlp) ==
    /\ buffer' = buf \o q
    /\ data_queue' = <<>>
    /\ buffer_since' = Since(buf \o q)
    /\ UNCHANGED writer_deadline
    /\ IF buf \o q # <<>>
       THEN /\ writer_pc' = "final"
            /\ helper' = [hlp EXCEPT !["final"] = "run"]
       ELSE /\ writer_pc' = "done"
            /\ helper' = hlp

\* the top of the loop of line 151: while csv_writer_running the writer waits up to
\* 1.0 s for a record (lines 155-157); else it leaves the loop
LoopTop(buf, q, hlp) ==
    IF csv_writer_running
    THEN /\ writer_pc' = "wait"
         /\ writer_deadline' = now + FlushTicks
         /\ buffer' = buf
         /\ buffer_since' = Since(buf)
         /\ data_queue' = q
         /\ helper' = hlp
    ELSE Drain(buf, q, hlp)

\* WriterAfterHeader for a writer that does not await write_header
WriterAfterHeaderNoAwait ==
    /\ mode \in WriterModes
    /\ writer_pc = "header"
    /\ ~writer_cancel
    /\ LoopTop(buffer, data_queue, helper)
    /\ UNCHANGED <<cfgVars, now, mainVars, stressVars, pctVars, procVars, kafkaVars,
                   csv_writer_running, writer_cancel, sink, enqueued, at_stop, stops,
                   write_failed>>

\* write_header has returned (line 132): the writer enters its loop
WriterAfterHeader ==
    /\ mode \in WriterModes
    /\ writer_pc = "header"
    /\ ~writer_cancel
    /\ helper["header"] = "done"
    /\ LoopTop(buffer, data_queue, helper)
    /\ UNCHANGED <<cfgVars, now, mainVars, stressVars, pctVars, procVars, kafkaVars,
                   csv_writer_running, writer_cancel, sink, enqueued, at_stop, stops,
                   write_failed>>

\* WriterGet for a writer that writes the buffer only when it holds more than
\* buffer_size records
WriterGetLateFlush ==
    /\ mode \in WriterModes
    /\ writer_pc = "wait"
    /\ ~writer_cancel
    /\ data_queue # <<>>
    /\ LET buf == Append(buffer, Head(data_queue)) IN
        IF Len(buf) > FlushSize
        THEN /\ writer_pc' = "flush_size"
             /\ helper' = [helper EXCEPT !["loop"] = "run"]
             /\ buffer' = buf
             /\ buffer_since' = Since(buf)
             /\ data_queue' = Tail(data_queue)
             /\ UNCHANGED writer_deadline
        ELSE LoopTop(buf, Tail(data_queue), helper)
    /\ UNCHANGED <<cfgVars, now, mainVars, stressVars, pctVars, procVars, kafkaVars,
                   csv_writer_running, writer_cancel, sink, enqueued, at_stop, stops,
                   write_failed>>

\* lines 155-167: wait_for returns a record, which is appended to the buffer; a
\* buffer of buffer_size records is written by write_batch in a thread
WriterGet ==
    /\ mode \in WriterModes
    /\ writer_pc = "wait"
    /\ ~writer_cancel
    /\ data_queue # <<>>
    /\ LET buf == Append(buffer, Head(data_queue)) IN
        IF Len(buf) >= FlushSize
        THEN /\ writer_pc' = "flush_size"
             /\ helper' = [helper EXCEPT !["loop"] = "run"]
             /\ buffer' = buf
             /\ buffer_since' = Since(buf)
             /\ data_queue' = Tail(data_queue)
             /\ UNCHANGED writer_deadline
        ELSE LoopTop(buf, Tail(data_queue), helper)
    /\ UNCHANGED <<cfgVars, now, mainVars, stressVars, pctVars, procVars, kafkaVars,
                   csv_writer_running, writer_cancel, sink, enqueued, at_stop, stops,
                   write_failed>>

\* lines 159-163: wait_for times out after 1.0 s without a record; a non-empty
\* buffer is written by write_batch in a thread
WriterTimeout ==
    /\ mode \in WriterModes
    /\ writer_pc = "wait"
    /\ ~writer_cancel
    /\ data_queue = <<>>
    /\ now >= writer_deadline
    /\ IF buffer # <<>>
       THEN /\ writer_pc' = "flush_timeout"
            /\ helper' = [helper EXCEPT !["loop"] = "run"]
            /\ UNCHANGED <<buffer, buffer_since, data_queue, writer_deadline>>
       ELSE LoopTop(buffer, data_queue, helper)
    /\ UNCHANGED <<cfgVars, now, mainVars, stressVars, pctVars, procVars, kafkaVars,
                   csv_writer_running, writer_cancel, sink, enqueued, at_stop, stops,
                   write_failed>>

\* write_batch in thread h, lines 143-148: if the buffer is not empty its rows are
\* appended to the file; the write may raise
BatchWrite(h) ==
    /\ mode \in WriterModes
    /\ h \in {"loop", "final"}
    /\ helper[h] = "run"
    /\ \/ /\ buffer = <<>>
          /\ helper' = [helper EXCEPT ![h] = "done"]
          /\ UNCHANGED <<sink, write_failed>>
       \/ /\ buffer # <<>>
          /\ sink' = sink \o buffer
          /\ helper' = [helper EXCEPT ![h] = "written"]
          /\ UNCHANGED write_failed
       \/ /\ buffer # <<>>
          /\ write_failed < MaxFailures
          /\ write_failed' = write_failed + 1
          /\ helper' = [helper EXCEPT ![h] = "failed"]
          /\ UNCHANGED sink
    /\ UNCHANGED <<cfgVars, now, mainVars, stressVars, pctVars, procVars, kafkaVars,
                   csv_writer_running, writer_pc, writer_cancel, writer_deadline,
                   data_queue, buffer, enqueued, at_stop, stops, buffer_since>>

\* write_batch in thread h, line 149: buffer.clear()
BatchClear(h) ==
    /\ mode \in WriterModes
    /\ h \in {"loop", "final"}
    /\ helper[h] = "written"
    /\ buffer' = <<>>
    /\ buffer_since' = NoTime
    /\ helper' = [helper EXCEPT ![h] = "done"]
    /\ UNCHANGED <<cfgVars, now, mainVars, stressVars, pctVars, procVars, kafkaVars,
                   csv_writer_running, writer_pc, writer_cancel, writer_deadline,
                   data_queue, sink, enqueued, at_stop, stops, write_failed>>

\* the write_batch of line 162 or 167 has returned, or raised (lines 171-172): the
\* writer is back at the top of its loop
WriterFlushed ==
    /\ mode \in WriterModes
    /\ writer_pc \in {"flush_timeout", "flush_size"}
    /\ ~writer_cancel
    /\ helper["loop"] \in {"done", "failed"}
    /\ LoopTop(buffer, data_queue, [helper EXCEPT !["loop"] = "idle"])
    /\ UNCHANGED <<cfgVars, now, mainVars, stressVars, pctVars, procVars, kafkaVars,
                   csv_writer_running, writer_cancel, sink, enqueued, at_stop, stops,
                   write_failed>>

\* the cancellation reaches the writer at its await.  In the loop CancelledError is
\* caught (lines 169-170) and the writer goes on after the loop; at the await of
\* write_header (line 132) and of the last write_batch (line 184) it ends the task.
WriterCancelled ==
    /\ mode \in WriterModes
    /\ writer_cancel
    /\ ~WriterEnded
    /\ writer_cancel' = FALSE
    /\ IF writer_pc \in {"header", "final"}
       THEN /\ writer_pc' = "cancelled"
            /\ UNCHANGED <<buffer, buffer_since, data_queue, helper, writer_deadline>>
       ELSE Drain(buffer, data_queue, helper)
    /\ UNCHANGED <<cfgVars, now, mainVars, stressVars, pctVars, procVars, kafkaVars,
                   csv_writer_running, sink, enqueued, at_stop, stops, write_failed>>

\* the last write_batch (line 184) has returned or raised: the task is done
WriterFinalDone ==
    /\ mode \in WriterModes
    /\ writer_pc = "final"
    /\ ~writer_cancel
    /\ helper["final"] \in {"done", "failed"}
    /\ writer_pc' = "done"
    /\ UNCHANGED <<cfgVars, now, mainVars, stressVars, pctVars, procVars, kafkaVars,
                   csv_writer_running, writer_cancel, writer_deadline, data_queue,
                   buffer, sink, helper, enqueued, at_stop, stops, buffer_since,
                   write_failed>>

\* stop() of kafka_consumer.py (lines 423-425) and stop_all() of mqtt_client.py (lines
\* 307-309): csv_writer_running is cleared and the writer task, if not done, is
\* cancelled.  stop_all() is called by the signal handler and again by main_async
\* (mqtt_client.py lines 395, 457); main_async of kafka_consumer.py cancels the task
\* again when it has not ended within 5 s (line 507).
StopWriter ==
    /\ mode = "writer"
    /\ stops < MaxStops
    /\ stops' = stops + 1
    /\ csv_writer_running' = FALSE
    /\ writer_cancel' = (writer_cancel \/ ~WriterEnded)
    /\ at_stop' = IF stops = 0 THEN Range(data_queue) \cup Range(buffer) ELSE at_stop
    /\ UNCHANGED <<cfgVars, now, mainVars, stressVars, pctVars, procVars, kafkaVars,
                   writer_pc, writer_deadline, data_queue, buffer, sink, helper,
                   enqueued, buffer_since, write_failed>>

\* the writer task has ended and no thread it started is still running
RunEnded ==
    /\ WriterEnded
    /\ \A h \in Helpers : helper[h] \in {"idle", "done", "failed"}

\* the number of rows of the file that are row r
RowCount(r) == Cardinality({i \in DOMAIN sink : sink[i] = r})

NextWriter ==
    \/ WriterTick
    \/ Enqueue
    \/ HeaderWritten
    \/ WriterAfterHeader
    \/ WriterGet
    \/ WriterTimeout
    \/ \E h \in Helpers : BatchWrite(h)
    \/ \E h \in Helpers : BatchClear(h)
    \/ WriterFlushed
    \/ WriterCancelled
    \/ WriterFinalDone
    \/ StopWriter

SpecWriter == InitWriter /\ [][NextWriter]_vars

(***************************************************************************)
(* The consumer as a process: main_async and main of kafka_consumer.py     *)
(* around consume_messages, the writer task and the SIGINT handler.        *)
(***************************************************************************)
\* the number written to stats["errors"] for an error of consume_messages itself
SetupError == MaxMessages + 1

\* main_async has built the manager and consume_messages awaits consumer.start(); the
\* run is followed until the first poll of the watchdog
InitConsumer ==
    /\ InitTesterAt("connect", "kafka", 1, 1, 1, 1, 0, StartTime + PollTicks, Responses,
                    <<>>)
    /\ idle_timeout = 1
    /\ timely = TRUE
    /\ KafkaIdle
    /\ WriterIdle
    /\ ProcIdle

\* consume_messages lines 320-385: consumer.start() has returned; the writer task, the
\* watchdog and the consume loop are created and consume_messages waits for the
\* first of the last two
ConnectOk ==
    /\ mode = "kafka"
    /\ main_pc = "connect"
    /\ main_pc' = "wait"
    /\ start_consuming_time' = now
    /\ activity' = now
    /\ wd_pc' = "new"
    /\ loop_pc' = "iter"
    /\ writer_pc' = "header"
    /\ helper' = [helper EXCEPT !["header"] = "run"]
    /\ UNCHANGED <<cfgVars, now, prod_idx, nones_put, stressVars, pctVars, procVars,
                   idle_timeout, timely, consumer_running, last_message_time, wd_wake,
                   wd_cancel, kstats, arrivals, discarded, signals, last_success_time,
                   fire_count, fired_at, fire_idle, fire_stats, csv_writer_running,
                   writer_cancel, writer_deadline, data_queue, buffer, sink, enqueued,
                   at_stop, stops, buffer_since, write_failed>>

\* consume_messages lines 320-348, 403-415: consumer.start() times out or raises; the
\* handlers print and raise again, the outer handlers of lines 403-408 record the
\* error, and consume_messages returns
ConnectFails ==
    /\ mode = "kafka"
    /\ main_pc = "connect"
    /\ main_pc' = "done"
    /\ kstats' = [kstats EXCEPT !.errors = Append(@, SetupError)]
    /\ UNCHANGED <<cfgVars, now, prod_idx, nones_put, stressVars, pctVars, procVars,
                   writerVars, idle_timeout, timely, consumer_running,
                   start_consuming_time, last_message_time, wd_pc, wd_wake, wd_cancel,
                   loop_pc, arrivals, discarded, signals, activity, last_success_time,
                   fire_count, fired_at, fire_idle, fire_stats>>

\* consume_loop lines 371-376: the consumer raises an error; with running true the
\* error ends the task, else it is ignored and the task returns
LoopFails ==
    /\ mode = "kafka"
    /\ main_pc = "wait"
    /\ loop_pc = "iter"
    /\ loop_pc' = IF consumer_running THEN "failed" ELSE "ended"
    /\ UNCHANGED <<cfgVars, now, mainVars, stressVars, pctVars, procVars, writerVars,
                   idle_timeout, timely, consumer_running, start_consuming_time,
                   last_message_time, wd_pc, wd_wake, wd_cancel, kstats, arrivals,
                   discarded, signals, activity, last_success_time, fire_count,
                   fired_at, fire_idle, fire_stats>>

\* signal_handler (lines 597-603) while consumer.start() is awaited, or while
\* main_async awaits the writer task: stop() is called
SignalOutsideLoop ==
    /\ mode = "kafka"
    /\ main_pc \in {"connect", "done"}
    /\ signals < MaxSignals
    /\ signals' = signals + 1
    /\ StopEffect
    /\ UNCHANGED <<cfgVars, now, mainVars, stressVars, pctVars, procVars, idle_timeout,
                   timely, start_consuming_time, last_message_time, wd_pc, wd_wake,
                   loop_pc, kstats, arrivals, discarded, activity, last_success_time,
                   fire_count, fired_at, fire_idle, fire_stats,
                   writer_pc, writer_deadline, data_queue, buffer, sink, helper,
                   enqueued, at_stop, stops, buffer_since, write_failed>>

\* main_async lines 504-507: the writer task has not ended 5 s after
\* consume_messages returned (the threads it awaits may take any time); wait_for
\* cancels it and waits for it to end
WriterWaitTimeout ==
    /\ mode = "kafka"
    /\ main_pc = "done"
    /\ writer_pc \notin {"none", "done", "cancelled"}
    /\ main_pc' = "timeout"
    /\ writer_cancel' = TRUE
    /\ UNCHANGED <<cfgVars, now, prod_idx, nones_put, stressVars, pctVars, procVars,
                   kafkaVars, csv_writer_running, writer_pc, writer_deadline,
                   data_queue, buffer, sink, helper, enqueued, at_stop, stops,
                   buffer_since, write_failed>>

\* the last write_batch of the writer task raised: the task ended with an exception
WriterRaised == writer_pc = "done" /\ helper["final"] = "failed"

\* main_async lines 502-509, 528: consume_messages has returned and the writer task is
\* done, was never created, or was cancelled by wait_for; print_stats() and return 0
MainAsyncReturn ==
    /\ mode = "kafka"
    /\ main_pc \in {"done", "timeout"}
    /\ writer_pc \in {"none", "done", "cancelled"}
    /\ main_pc' = "exited"
    /\ prints' = prints + 1
    /\ exit_code' = 0
    /\ UNCHANGED <<cfgVars, now, prod_idx, nones_put, stressVars, pctVars, kafkaVars,
                   writerVars, client_pc, auxVars>>

\* main_async lines 510-516: the writer task main_async awaits ends cancelled;
\* stop(), print_stats() and return 0
MainAsyncCancelled ==
    /\ mode = "kafka"
    /\ main_pc = "done"
    /\ writer_pc = "cancelled"
    /\ StopEffect
    /\ main_pc' = "exited"
    /\ prints' = prints + 1
    /\ exit_code' = 0
    /\ UNCHANGED <<cfgVars, now, prod_idx, nones_put, stressVars, pctVars, client_pc, auxVars,
                   idle_timeout, timely, start_consuming_time, last_message_time,
                   wd_pc, wd_wake, loop_pc, kstats, arrivals, discarded, signals,
                   activity, last_success_time, fire_count, fired_at, fire_idle,
                   fire_stats, writer_pc, writer_deadline, data_queue, buffer, sink,
                   helper, enqueued, at_stop, stops, buffer_since, write_failed>>

\* main_async lines 517-522: the writer task main_async awaits ends with the
\* exception of its last write_batch; stop(), print_stats() and return 1
MainAsyncError ==
    /\ mode = "kafka"
    /\ main_pc = "done"
    /\ WriterRaised
    /\ StopEffect
    /\ main_pc' = "exited"
    /\ prints' = prints + 1
    /\ exit_code' = 1
    /\ UNCHANGED <<cfgVars, now, prod_idx, nones_put, stressVars, pctVars, client_pc, auxVars,
                   idle_timeout, timely, start_consuming_time, last_message_time,
                   wd_pc, wd_wake, loop_pc, kstats, arrivals, discarded, signals,
                   activity, last_success_time, fire_count, fired_at, fire_idle,
                   fire_stats, writer_pc, writer_deadline, data_queue, buffer, sink,
                   helper, enqueued, at_stop, stops, buffer_since, write_failed>>

\* the steps of the writer task and of its threads
NextWriterTask ==
    \/ HeaderWritten
    \/ WriterAfterHeader
    \/ WriterGet
    \/ WriterTimeout
    \/ \E h \in Helpers : BatchWrite(h)
    \/ \E h \in Helpers : BatchClear(h)
    \/ WriterFlushed
    \/ WriterCancelled
    \/ WriterFinalDone

NextConsumer ==
    \/ KafkaTick
    \/ ConnectOk
    \/ ConnectFails
    \/ WatchdogStart
    \/ WatchdogPoll
    \/ WatchdogCancelled
    \/ MessageArrives
    \/ LoopFails
    \/ SignalStop
    \/ SignalOutsideLoop
    \/ ConsumeFinish
    \/ WriterWaitTimeout
    \/ MainAsyncReturn
    \/ MainAsyncCancelled
    \/ MainAsyncError
    \/ NextWriterTask

SpecConsumer == InitConsumer /\ [][NextConsumer]_vars

\* the steps of the consumer's tasks, of main_async and of the writer's threads:
\* all but the clock, the messages and errors of the broker, the signal, and the
\* 5 s timeout of main_async
ConsumerProgress ==
    \/ ConnectOk
    \/ ConnectFails
    \/ WatchdogStart
    \/ WatchdogPoll
    \/ WatchdogCancelled
    \/ ConsumeFinish
    \/ MainAsyncReturn
    \/ MainAsyncCancelled
    \/ MainAsyncError
    \/ NextWriterTask

\* The event loop runs every task that can take a step, consumer.start() returns
\* or times out, and the threads of asyncio.to_thread run to their end
SpecConsumerLive == SpecConsumer /\ WF_vars(ConsumerProgress)

(***************************************************************************)
(* The MQTT clients as a process: main_async of mqtt_client.py around      *)
(* start_clients, the client tasks, the writer task and the SIGINT handler.*)
(***************************************************************************)
\* main_async has built the manager and calls start_clients
InitClients ==
    /\ \E d \in Clients :
        InitTesterAt("load", "mqtt", d, 1, 1, 1, 0, StartTime + FlushTicks, Responses,
                     <<>>)
    /\ idle_timeout = 1
    /\ timely = TRUE
    /\ KafkaIdle
    /\ WriterIdle
    /\ ProcIdle

\* the clients start_clients creates
LiveClients == 1..device_count

\* half a second passes
ClientsTick ==
    /\ mode = "mqtt"
    /\ now < max_time
    /\ now' = now + 1
    /\ UNCHANGED <<cfgVars, mainVars, stressVars, pctVars, toolVars>>

\* MQTTClientManager.stop_all (lines 303-316): csv_writer_running is cleared, the
\* writer task and the client tasks that are not done are cancelled
StopAllEffect ==
    /\ csv_writer_running' = FALSE
    /\ writer_cancel' = (writer_cancel \/ writer_pc \notin {"none", "done", "cancelled"})
    /\ client_pc' = [c \in Clients |-> IF client_pc[c] = "run" THEN "cancel" ELSE client_pc[c]]

\* start_clients lines 264-295: load_device_ids; on an error main_async calls
\* stop_all() and returns 1 (lines 399-402), else the writer task and one task for
\* each client are created and start_clients awaits them all
StartClients ==
    /\ mode = "mqtt"
    /\ main_pc = "load"
    /\ \E exists \in BOOLEAN, n \in 0..MaxUnits :
        IF load_device_ids(exists, n, device_count) = "ok"
        THEN /\ main_pc' = "gather"
             /\ writer_pc' = "header"
             /\ helper' = [helper EXCEPT !["header"] = "run"]
             /\ client_pc' = [c \in Clients |->
                                IF c \in LiveClients THEN "run" ELSE client_pc[c]]
             /\ UNCHANGED <<exit_code, csv_writer_running, writer_cancel>>
        ELSE /\ StopAllEffect
             /\ main_pc' = "failed"
             /\ exit_code' = 1
             /\ UNCHANGED <<writer_pc, helper>>
    /\ UNCHANGED <<cfgVars, now, prod_idx, nones_put, stressVars, pctVars, kafkaVars,
                   prints, auxVars, writer_deadline, data_queue, buffer, sink, enqueued,
                   at_stop,
                   stops, buffer_since, write_failed>>

\* connect_and_subscribe lines 139-141: the connection or the subscription of
\* client c raises MqttError, which is recorded; the task returns
ClientFails(c) ==
    /\ mode = "mqtt"
    /\ client_pc[c] = "run"
    /\ client_pc' = [client_pc EXCEPT ![c] = "failed"]
    /\ UNCHANGED <<cfgVars, now, mainVars, stressVars, pctVars, kafkaVars, writerVars,
                   exit_code, prints, auxVars>>

\* the number of messages the first n clients have counted, and of the errors they
\* have recorded: the sums over stats["messages_received"] and len(stats["errors"])
RECURSIVE TotalReceived(_)
TotalReceived(n) ==
    IF n = 0 THEN 0 ELSE client_stats[n].messages_received + TotalReceived(n - 1)

RECURSIVE TotalErrors(_)
TotalErrors(n) ==
    IF n = 0 THEN 0 ELSE client_stats[n].errors + TotalErrors(n - 1)

\* ClientBadMessage for an on_message that counts every message it receives
ClientBadMessageCounted(c) ==
    /\ mode = "mqtt"
    /\ client_pc[c] = "run"
    /\ TotalErrors(MaxConcurrent) < MaxFailures
    /\ client_stats' = [client_stats EXCEPT ![c].errors = @ + 1,
                                            ![c].messages_received = @ + 1]
    /\ UNCHANGED <<cfgVars, now, mainVars, stressVars, pctVars, kafkaVars, writerVars,
                   exit_code, prints, client_pc, put_tasks, put_log, call_args,
                   call_result>>

\* on_message of client c (lines 49-115) for a message with no usable timestamp: a
\* payload that is no JSON object, that has no timestamp or a timestamp of 0, or
\* whose timestamp cannot be subtracted: an error is recorded, and nothing else
ClientBadMessage(c) ==
    /\ mode = "mqtt"
    /\ client_pc[c] = "run"
    /\ TotalErrors(MaxConcurrent) < MaxFailures
    /\ client_stats' = [client_stats EXCEPT ![c].errors = @ + 1]
    /\ UNCHANGED <<cfgVars, now, mainVars, stressVars, pctVars, kafkaVars, writerVars,
                   exit_code, prints, client_pc, put_tasks, put_log, call_args,
                   call_result>>

\* on_message of client c (lines 80-97) for a message with a timestamp:
\* messages_received += 1, and a task is created that will put the record
\* (device_id, messages_received, latency) on the queue
ClientMessage(c) ==
    /\ mode = "mqtt"
    /\ client_pc[c] = "run"
    /\ TotalReceived(MaxConcurrent) < MaxMessages
    /\ client_stats' = [client_stats EXCEPT ![c].messages_received = @ + 1]
    /\ put_tasks' = Append(put_tasks, <<c, client_stats[c].messages_received + 1>>)
    /\ UNCHANGED <<cfgVars, now, mainVars, stressVars, pctVars, kafkaVars, writerVars,
                   exit_code, prints, client_pc, put_log, call_args, call_result>>

\* the oldest put task runs (line 93-97; the queue has no capacity limit): its record
\* enters the queue.  The tasks run in the order of their creation, while the
\* event loop of asyncio.run is running.
PutRuns ==
    /\ mode = "mqtt"
    /\ main_pc \in {"gather", "cleanup"}
    /\ put_tasks # <<>>
    /\ put_tasks' = Tail(put_tasks)
    /\ put_log' = Append(put_log, Head(put_tasks))
    /\ enqueued' = enqueued + 1
    /\ data_queue' = Append(data_queue, enqueued + 1)
    /\ UNCHANGED <<cfgVars, now, mainVars, stressVars, pctVars, kafkaVars,
                   exit_code, prints, client_pc, client_stats, call_args, call_result,
                   csv_writer_running, writer_pc, writer_cancel, writer_deadline,
                   buffer, sink, helper, at_stop, stops, buffer_since, write_failed>>

\* the cancellation of stop_all() reaches client c at its await: the task ends
\* cancelled
ClientCancelled(c) ==
    /\ mode = "mqtt"
    /\ client_pc[c] = "cancel"
    /\ client_pc' = [client_pc EXCEPT ![c] = "cancelled"]
    /\ UNCHANGED <<cfgVars, now, mainVars, stressVars, pctVars, kafkaVars, writerVars,
                   exit_code, prints, auxVars>>

\* signal_handler (lines 453-459) while start_clients awaits the tasks: stop_all()
ClientsSignal ==
    /\ mode = "mqtt"
    /\ main_pc = "gather"
    /\ signals < MaxSignals
    /\ signals' = signals + 1
    /\ StopAllEffect
    /\ UNCHANGED <<cfgVars, now, mainVars, stressVars, pctVars, exit_code, prints, auxVars,
                   idle_timeout, timely, consumer_running, start_consuming_time,
                   last_message_time, wd_pc, wd_wake, wd_cancel, loop_pc, kstats,
                   arrivals, discarded, activity, last_success_time, fire_count,
                   fired_at, fire_idle, fire_stats, writer_pc, writer_deadline,
                   data_queue, buffer, sink, helper, enqueued, at_stop, stops,
                   buffer_since, write_failed>>

\* a task asyncio.gather awaits has ended cancelled
ChildCancelled ==
    \/ writer_pc = "cancelled"
    \/ \E c \in LiveClients : client_pc[c] = "cancelled"

\* start_clients lines 293-297, main_async lines 392-395: a task of the gather ended
\* cancelled, gather raises CancelledError, and main_async calls stop_all() and
\* sleeps 1 s
GatherCancelled ==
    /\ mode = "mqtt"
    /\ main_pc = "gather"
    /\ ChildCancelled
    /\ StopAllEffect
    /\ main_pc' = "cleanup"
    /\ UNCHANGED <<cfgVars, now, prod_idx, nones_put, stressVars, pctVars, kafkaVars,
                   exit_code, prints, auxVars, writer_pc, writer_deadline, data_queue, buffer,
                   sink, helper, enqueued, at_stop, stops, buffer_since, write_failed>>

\* main_async lines 396-398: after the sleep, print_stats() and return 0
ClientsInterrupted ==
    /\ mode = "mqtt"
    /\ main_pc = "cleanup"
    /\ main_pc' = "exited"
    /\ prints' = prints + 1
    /\ exit_code' = 0
    /\ UNCHANGED <<cfgVars, now, prod_idx, nones_put, stressVars, pctVars, kafkaVars,
                   writerVars, client_pc, auxVars>>

\* start_clients lines 298-301, main_async lines 399-402: the writer task ended with
\* the exception of its last write_batch before any task ended cancelled; gather
\* raises it, and main_async calls stop_all() and returns 1
GatherError ==
    /\ mode = "mqtt"
    /\ main_pc = "gather"
    /\ WriterRaised
    /\ ~ChildCancelled
    /\ StopAllEffect
    /\ main_pc' = "exited"
    /\ exit_code' = 1
    /\ UNCHANGED <<cfgVars, now, prod_idx, nones_put, stressVars, pctVars, kafkaVars,
                   prints, auxVars, writer_pc, writer_deadline, data_queue, buffer, sink,
                   helper,
                   enqueued, at_stop, stops, buffer_since, write_failed>>

\* GatherReturns for a gather over the client tasks alone
GatherReturnsWithoutWriter ==
    /\ mode = "mqtt"
    /\ main_pc = "gather"
    /\ \A c \in LiveClients : client_pc[c] = "failed"
    /\ main_pc' = "exited"
    /\ exit_code' = 0
    /\ UNCHANGED <<cfgVars, now, prod_idx, nones_put, stressVars, pctVars, kafkaVars,
                   writerVars, prints, client_pc, auxVars>>

\* start_clients line 294, main_async line 406: every client task has returned and
\* the writer task has returned; gather returns and main_async returns 0
GatherReturns ==
    /\ mode = "mqtt"
    /\ main_pc = "gather"
    /\ writer_pc = "done"
    /\ ~WriterRaised
    /\ \A c \in LiveClients : client_pc[c] = "failed"
    /\ main_pc' = "exited"
    /\ exit_code' = 0
    /\ UNCHANGED <<cfgVars, now, prod_idx, nones_put, stressVars, pctVars, kafkaVars,
                   writerVars, prints, client_pc, auxVars>>

NextClients ==
    \/ ClientsTick
    \/ StartClients
    \/ \E c \in Clients : ClientFails(c)
    \/ \E c \in Clients : ClientMessage(c)
    \/ \E c \in Clients : ClientBadMessage(c)
    \/ PutRuns
    \/ \E c \in Clients : ClientCancelled(c)
    \/ ClientsSignal
    \/ GatherCancelled
    \/ ClientsInterrupted
    \/ GatherError
    \/ GatherReturns
    \/ NextWriterTask

SpecClients == InitClients /\ [][NextClients]_vars

\* The tools that load identifiers, as processes: the HTTP tester and the clients
InitTools == InitRun \/ InitClients

NextTools == NextRun \/ NextClients

SpecTools == InitTools /\ [][NextTools]_vars

(***************************************************************************)
(* Functions taken on their own: the outcome send_request of http_stress.py *)
(* computes from what the server answers, and the timestamp                *)
(* process_message of kafka_consumer.py takes for a message.               *)
(***************************************************************************)
\* 1_000_000.0 of kafka_consumer.py line 212: the nanoseconds of a millisecond
NsPerMs == 1000000

\* A timestamp is the number hi * NsPerMs + lo, with lo in 0..NsPerMs-1: the values
\* around 1e12 do not fit the integers of the model checker.
Timestamp(hi, lo) == [hi |-> hi, lo |-> lo]

\* 1e12 of kafka_consumer.py line 211
NsThreshold == Timestamp(NsPerMs, 0)

\* a > b for two timestamps
Later(a, b) == a.hi > b.hi \/ (a.hi = b.hi /\ a.lo > b.lo)

\* a JSON value as Python holds it after json.loads, by its type; num is the number
\* it is (int, float), the number Python takes a bool for (False 0, True 1), the
\* number a string spells, and 0 for null
JsonValue(type, num) == [type |-> type, num |-> num]

JsonNull == JsonValue("null", 0)

\* Python's value == 0: true of the int 0, the float 0.0 and of False
PyEqualsZero(v) == v.type \in {"int", "float", "bool"} /\ v.num = 0

\* the values the "code" member of a response is drawn from
CodeValues ==
    {JsonValue("int", 0), JsonValue("int", 1), JsonValue("float", 0),
     JsonValue("str", 0), JsonValue("bool", 0), JsonNull}

\* the text of a response: no JSON, JSON that is no object (null, an array), or an
\* object, with or without the member "code"
ResponseText(form, has_code, code) == [form |-> form, has_code |-> has_code, code |-> code]

ResponseTexts ==
    {ResponseText(form, FALSE, JsonNull) : form \in {"invalid", "null", "array", "object"}}
        \cup {ResponseText("object", TRUE, code) : code \in CodeValues}

\* the statuses the server answers with, around the bounds of 200..299
Statuses == {199, 200, 204, 299, 300, 404, 500}

\* what a call of send_request meets: session.post raises (raises = "post"), reading
\* the text raises ("text"), or the response arrives with a status and a text
Replies ==
    [raises : {"none", "post", "text"}, status : Statuses, text : ResponseTexts]

\* dict.get("code") of the parsed response (None when the member is missing)
GetCode(text) == IF text.has_code THEN text.code ELSE JsonNull

\* send_request for a process that takes the HTTP status alone in every mode
SendRequestStatusOnly(emqx, reply) ==
    IF reply.raises # "none"
    THEN [status |-> 0, success |-> FALSE]
    ELSE [status |-> reply.status, success |-> HttpSuccess(reply.status)]

\* StressTester.send_request (http_stress.py lines 146-223): the status and the
\* success of the dict it returns
send_request(emqx, reply) ==
    IF reply.raises # "none"
    THEN [status |-> 0, success |-> FALSE]
    ELSE LET http_success == HttpSuccess(reply.status)
             business_success ==
                 /\ http_success
                 /\ reply.text.form = "object"
                 /\ PyEqualsZero(GetCode(reply.text))
         IN  [status |-> reply.status,
              success |-> IF emqx THEN http_success
                          ELSE http_success /\ business_success]

\* message.timestamp: None, 0, -1 (the broker's mark of no timestamp) or a time
NoTimestamp == [none |-> TRUE]

BrokerTimestamps ==
    {NoTimestamp, Timestamp(0, 0), Timestamp(-1, NsPerMs - 1), Timestamp(1700000, 5)}

\* the numbers a payload carries as its timestamp: around 1e12, and 0
PayloadNumbers ==
    {Timestamp(0, 0), Timestamp(0, 1), Timestamp(NsPerMs - 1, NsPerMs - 1),
     Timestamp(NsPerMs, 0), Timestamp(NsPerMs, 1), Timestamp(1700000, 5),
     Timestamp(2 * NsPerMs, 7)}

\* the "timestamp" member of a payload
PayloadTimestamps ==
    {JsonValue(type, num) : type \in {"int", "float"}, num \in PayloadNumbers}
        \cup {JsonValue("str", Timestamp(0, 1)), JsonValue("bool", Timestamp(0, 1)),
              JsonValue("null", Timestamp(0, 0))}

\* message.value: None, b"", bytes that are no UTF-8 or no JSON, JSON that is no
\* object, an object without "timestamp", an object with it
MessageValue(form, ts) == [form |-> form, ts |-> ts]

MessageValues ==
    {MessageValue(form, JsonValue("null", Timestamp(0, 0))) :
        form \in {"none", "empty", "not_utf8", "not_json", "array", "object"}}
        \cup {MessageValue("timed", ts) : ts \in PayloadTimestamps}

\* the timestamp process_message has found: None, or the number num / den in ms
NoMessageTimestamp == [none |-> TRUE]

MessageTimestamp(num, den) == [num |-> num, den |-> den]

\* the payload's timestamp with 1e12 itself taken for nanoseconds
PayloadTimestampInclusive(ts) ==
    IF ts.type \notin {"int", "float", "bool"} THEN NoMessageTimestamp
    ELSE IF ~Later(NsThreshold, ts.num) THEN MessageTimestamp(ts.num, NsPerMs)
    ELSE MessageTimestamp(ts.num, 1)

\* process_message lines 208-214: the timestamp taken from payload["timestamp"];
\* isinstance(ts, (int, float)) holds of a bool as well
PayloadTimestamp(ts) ==
    IF ts.type \notin {"int", "float", "bool"} THEN NoMessageTimestamp
    ELSE IF Later(ts.num, NsThreshold) THEN MessageTimestamp(ts.num, NsPerMs)
    ELSE MessageTimestamp(ts.num, 1)

\* process_message lines 196-216: message_timestamp_ms
message_timestamp_ms(timestamp, value) ==
    IF timestamp # NoTimestamp /\ timestamp # Timestamp(0, 0)
    THEN MessageTimestamp(timestamp, 1)
    ELSE IF value.form = "timed" THEN PayloadTimestamp(value.ts)
    ELSE NoMessageTimestamp

\* the calls the model makes
RequestCalls == [fn : {"send_request"}, emqx : BOOLEAN, reply : Replies]

MessageCalls ==
    [fn : {"process_message"}, timestamp : BrokerTimestamps, value : MessageValues]

InitCalls ==
    /\ InitTester("call", 1, 1, 1, 1, 0, StartTime, Responses, <<>>)
    /\ idle_timeout = 1
    /\ timely = TRUE
    /\ KafkaIdle
    /\ WriterIdle
    /\ exit_code = 0
    /\ prints = 0
    /\ client_pc = [c \in Clients |-> "none"]
    /\ client_stats = [c \in Clients |-> EmptyClientStats]
    /\ put_tasks = <<>>
    /\ put_log = <<>>
    /\ call_args \in RequestCalls \cup MessageCalls
    /\ call_result = NoCall

\* send_request is called and returns
SendRequestCall ==
    /\ mode = "call"
    /\ call_args.fn = "send_request"
    /\ call_result = NoCall
    /\ call_result' = send_request(call_args.emqx, call_args.reply)
    /\ UNCHANGED <<cfgVars, now, mainVars, stressVars, pctVars, kafkaVars, writerVars,
                   exit_code, prints, client_pc, client_stats, put_tasks, put_log,
                   call_args>>

\* process_message is called and finds the timestamp of the message
ProcessMessageCall ==
    /\ mode = "call"
    /\ call_args.fn = "process_message"
    /\ call_result = NoCall
    /\ call_result' = message_timestamp_ms(call_args.timestamp, call_args.value)
    /\ UNCHANGED <<cfgVars, now, mainVars, stressVars, pctVars, kafkaVars, writerVars,
                   exit_code, prints, client_pc, client_stats, put_tasks, put_log,
                   call_args>>

NextCalls ==
    \/ SendRequestCall
    \/ ProcessMessageCall

SpecCalls == InitCalls /\ [][NextCalls]_vars

(***************************************************************************)
(* Properties.                                                             *)
(***************************************************************************)
\* C1: in single-threaded mode (http_stress.py with threads = 1, and main.py), for
\* every device count D, loop count L and concurrency C, once the run is complete
\* stats.total = D * L and every enqueued (device, round) unit was recorded exactly
\* once; before that no unit is recorded twice.
C1_SingleThreadedTotal ==
    mode \in {"single", "main"} =>
        /\ \A u \in AllUnits : recorded[u] <= 1
        /\ main_pc = "done" =>
            /\ stats.total = device_count * loop_count
            /\ \A u \in AllUnits : recorded[u] = IF u \in Units THEN 1 ELSE 0

\* a complete single-threaded run of 2 devices and 2 rounds by 2 workers
C1_Witness ==
    /\ mode = "single"
    /\ main_pc = "done"
    /\ device_count = 2
    /\ loop_count = 2
    /\ concurrent = 2
    /\ stats.total = 4

\* C2: in multi-threaded mode, for every interleaving of the threads' loaders and
\* workers, once all threads are joined stats.total = D * L: no unit a loader took
\* from the shared task queue is dropped, and none is recorded twice.
C2_MultiThreadedTotal ==
    mode = "multi" =>
        /\ \A u \in AllUnits : recorded[u] <= 1
        /\ main_pc = "done" =>
            /\ stats.total = device_count * loop_count
            /\ \A u \in AllUnits : recorded[u] = IF u \in Units THEN 1 ELSE 0

\* a complete run of 2 threads over 3 units
C2_Witness ==
    /\ mode = "multi"
    /\ main_pc = "done"
    /\ threads = 2
    /\ device_count * loop_count = 3
    /\ stats.total = 3

\* C3: with an interval I > 0, any two dispatches of rounds of the same key, and any
\* two updates of the key's last_request_time, are at least I apart, also when two
\* workers hold different rounds of the key at the same time.
C3_IntervalRespected ==
    interval > 0 =>
        /\ min_dispatch_gap = NoGap \/ min_dispatch_gap >= interval
        /\ min_update_gap = NoGap \/ min_update_gap >= interval

\* C4: a worker holds the interval lock only to read last_request_time and compute
\* the wait, and to write the new time; never while it sleeps for the throttle or
\* while its request is in flight.
C4_LockNotHeldAcrossSleep ==
    \A w \in Workers :
        /\ interval_lock = w => pc[w] \in {"throttle", "update"}
        /\ pc[w] \in {"sleep", "inflight"} => interval_lock # w

\* a worker takes the lock for one key while another worker sleeps for another key
C4_Witness ==
    \E w1 \in Workers, w2 \in Workers :
        /\ pc[w1] = "sleep"
        /\ interval_lock = w2
        /\ pc[w2] = "throttle"
        /\ item[w1][1] # item[w2][1]

\* C5: a unit of round 0 never enters the throttle (lock, wait computation, sleep),
\* whatever the interval; and no unit enters it when interval = 0.
C5_FirstRoundNeverWaits ==
    \A w \in Workers :
        pc[w] \in {"throttle_lock", "throttle", "sleep"} =>
            /\ interval > 0
            /\ item[w][2] > 0

\* with an interval, a unit of round 0 is in flight while another worker sleeps
C5_Witness ==
    /\ interval > 0
    /\ \E w1 \in Workers, w2 \in Workers :
        /\ pc[w1] = "inflight"
        /\ item[w1][2] = 0
        /\ pc[w2] = "sleep"

\* C6: in every state another worker or thread can observe (the stats lock free; in
\* main.py every state between two steps of the event loop),
\* total = success + failed and len(latencies) <= total.
C6_StatsConsistent ==
    (mode = "main" \/ stats_lock = NoWorker) =>
        /\ stats.total = stats.success + stats.failed
        /\ Len(stats.latencies) <= stats.total

\* under the lock, total is already incremented and the outcome not yet counted
C6_Witness ==
    /\ stats_lock # NoWorker
    /\ stats.total = stats.success + stats.failed + 1
    /\ stats.total > 1

\* C7: in multi-threaded mode each (device, round) unit is in at most one place (the
\* shared task queue, a loader's hand, a thread's queue, a worker's hand), is sent at
\* most once, and at the end of the run was sent exactly once.
C7_AtMostOnceConsumption ==
    LET Places(u) ==
            {<<"task_queue", i>> : i \in {j \in DOMAIN task_queue : task_queue[j] = u}}
            \cup {<<"loader", t>> : t \in {th \in ThreadIds : loader_item[th] = u}}
            \cup UNION {{<<"queue", t, i>> : i \in {j \in DOMAIN queue[t] : queue[t][j] = u}}
                        : t \in ThreadIds}
            \cup {<<"worker", w>> : w \in {x \in Workers : item[x] = u}}
    IN  mode = "multi" =>
            /\ \A u \in AllUnits : Cardinality(Places(u)) <= 1 /\ sent[u] <= 1
            /\ main_pc = "done" => \A u \in Units : sent[u] = 1

\* workers of two threads have different units in flight
C7_Witness ==
    \E w1 \in Workers, w2 \in Workers :
        /\ w1[1] # w2[1]
        /\ pc[w1] = "inflight"
        /\ pc[w2] = "inflight"
        /\ item[w1] # item[w2]
        /\ sent[item[w1]] = 1
        /\ sent[item[w2]] = 1

\* C8 as stated: every queue that holds dispatch units, the shared task queue of
\* multi-threaded mode included, holds at most 2 * concurrency units.
C8_EveryQueueBounded ==
    /\ \A t \in ThreadIds : Len(queue[t]) <= maxsize
    /\ Len(task_queue) <= maxsize

\* C8: every asyncio queue the workers take units from (the queue of single-threaded
\* mode, each thread's async_queue) holds at most 2 * concurrency entries, and its
\* producer waits while it is full; the shared task_queue of multi-threaded mode
\* has no capacity and holds all D * L units before the threads start.
C8_WorkerQueuesBounded ==
    /\ \A t \in ThreadIds : Len(queue[t]) <= maxsize
    /\ (mode = "multi" /\ main_pc = "join") => Len(task_queue) <= total_requests
    /\ (mode = "multi" /\ main_pc = "init") => Len(task_queue) = prod_idx

\* the queue of single-threaded mode is full and the producer has units left
C8_Witness ==
    /\ mode = "single"
    /\ main_pc = "produce"
    /\ Len(queue[1]) = maxsize
    /\ prod_idx < total_requests

C10_Percentile ==
    LET n == Len(pct_data)
        floor(pct) == CHOOSE k \in 0..n : k * 100 <= n * pct /\ n * pct < (k + 1) * 100
        index(pct) == Min(floor(pct), n - 1)
        IsAt(idx, x) ==
            /\ \E i \in 1..n : pct_data[i] = x
            /\ Cardinality({i \in 1..n : pct_data[i] < x}) <= idx
            /\ Cardinality({i \in 1..n : pct_data[i] <= x}) > idx
    IN  /\ (pct_p # 0 /\ n = 0) => pct_result = 0
        /\ (pct_p # 0 /\ n > 0) => IsAt(index(pct_p), pct_result)
        /\ (mode = "pct" /\ report.printed /\ n > 0) =>
            /\ IsAt(index(50), report.median)
            /\ IsAt(index(95), report.p95)
            /\ IsAt(index(99), report.p99)
        /\ (pct_data = <<10, 20, 30, 40, 100>> /\ pct_p = 50) => pct_result = 30
        /\ (pct_data = <<10, 20, 30, 40, 100>> /\ pct_p = 99) => pct_result = 100

\* p99 of [10, 20, 30, 40, 100] was computed and is the largest element
C10_Witness ==
    /\ pct_data = <<10, 20, 30, 40, 100>>
    /\ pct_p = 99
    /\ pct_result = 100

\* C11: the percentiles depend only on the multiset of the recorded latencies: for
\* every order in which the same latencies could have been recorded, p50, p90, p95
\* and p99 (calculate_percentile, get_stats, print_stats) are the values computed;
\* computing them, once or again, leaves the stored list as it was recorded.
C11_OrderIndependent ==
    LET n == Len(pct_orig)
        Reordered == {[i \in 1..n |-> pct_orig[q[i]]] : q \in Permutations(1..n)}
    IN  /\ pct_data = pct_orig
        /\ mode = "pct" => stats.latencies = pct_orig
        /\ pct_p # 0 =>
            \A d \in Reordered : calculate_percentile(d, pct_p) = pct_result
        /\ pct_stats.any => \A d \in Reordered : get_stats(d) = pct_stats
        /\ (mode = "pct" /\ report.printed) =>
            \A d \in Reordered : print_stats([stats EXCEPT !.latencies = d]) = report

\* a percentile of a list recorded in descending order was computed twice
C11_Witness ==
    /\ pct_orig = <<100, 40, 30, 20, 10>>
    /\ pct_calls = 2
    /\ pct_p = 50
    /\ pct_result = 30

\* C12: the watchdog never calls stop() while less than idle_timeout_seconds has
\* passed since the later of start_consuming_time and last_message_time, whenever
\* the messages arrive and however the polls are aligned or delayed.
C12_NoEarlyTimeout ==
    fire_count > 0 =>
        /\ fire_idle >= idle_timeout
        /\ fired_at - Max(start_consuming_time, last_message_time) >= idle_timeout

\* the watchdog fired exactly idle_timeout after the last message
C12_Witness ==
    /\ fire_count = 1
    /\ last_message_time # NoTime
    /\ fire_idle = idle_timeout
    /\ fired_at = last_message_time + idle_timeout

\* C13: the watchdog performs the timeout shutdown at most once, and having done so
\* it is past its loop (running is false and the task ends without sleeping again);
\* when its polls run on time, it does so at the first poll at which the idle time
\* has reached idle_timeout: while it still sleeps, less than idle_timeout plus one
\* poll period has passed since the start or the last message.
C13_TimeoutOnceThenEnds ==
    /\ fire_count <= 1
    /\ fire_count = 1 => (wd_pc \in {"stopping", "ended"} /\ ~consumer_running)
    /\ (timely /\ wd_pc = "stopping") => now = fired_at
    /\ (timely /\ wd_pc \in {"new", "sleep"} /\ ~wd_cancel) =>
            now - activity < idle_timeout + PollTicks

\* the watchdog fired after a message, its task has ended and the run is over
C13_Witness ==
    /\ timely
    /\ fire_count = 1
    /\ last_message_time # NoTime
    /\ wd_pc = "ended"
    /\ main_pc = "done"

\* C14: after the watchdog has fired no message is processed: self.stats stays as it
\* was; and every message counted in messages_received was put on the writer's
\* queue in the same step, so none is half processed when the watchdog fires.
C14_NothingProcessedAfterTimeout ==
    mode = "kafka" =>
        /\ fire_count > 0 => kstats = fire_stats
        /\ kstats.messages_received = enqueued
        /\ Len(data_queue) = enqueued

\* after the watchdog fired, the consumer delivered a message that was not processed
C14_Witness ==
    /\ fire_count = 1
    /\ discarded = 1
    /\ kstats.messages_received >= 1
    /\ Len(data_queue) = kstats.messages_received

\* C15: last_message_time is the time of the last successfully processed message (None
\* if there is none): a message whose processing raises does not move it.
C15_IdleSinceLastSuccess ==
    mode = "kafka" => last_message_time = last_success_time


\* C16: when the writer is stopped, every record that was on the queue or in the
\* buffer at that moment has been written to the file by the time the writer task
\* ends, wherever the writer was suspended and also when it is stopped twice.
C16_StopFlushesEverything ==
    (mode = "writer" /\ WriterEnded /\ stops > 0 /\ write_failed = 0)
        => at_stop \subseteq Range(sink)

\* C17: when the run has ended after a stop, without a failed write, the file holds
\* every enqueued record exactly once.
C17_SinkIsExactlyEnqueued ==
    (mode = "writer" /\ RunEnded /\ stops > 0 /\ write_failed = 0)
        => \A r \in 1..enqueued : RowCount(r) = 1

\* C18: while the writer waits for a record, a non-empty buffer has been non-empty
\* for at most one flush interval.
C18_FlushWithinInterval ==
    (mode = "writer" /\ timely /\ writer_pc = "wait" /\ buffer # <<>>
     /\ write_failed = 0)
        => now - buffer_since <= FlushTicks

\* C19: whenever the writer waits for the next record and no write has failed, the
\* buffer holds fewer than buffer_size records.
C19_BufferBelowFlushSize ==
    (mode = "writer" /\ writer_pc = "wait" /\ write_failed = 0)
        => Len(buffer) < FlushSize

\* a buffer of buffer_size records has been written and the writer waits again
C19_Witness ==
    /\ mode = "writer"
    /\ writer_pc = "wait"
    /\ write_failed = 0
    /\ stops = 0
    /\ buffer = <<>>
    /\ Len(sink) = FlushSize + 1

\* C20: the header row is written exactly once per run and before any record row: no
\* row is in the file while write_header runs, the file never holds two header
\* rows, and once write_header has returned the first row of the file is the one
\* header row.
C20_HeaderOnceAndFirst ==
    mode = "writer" =>
        /\ helper["header"] = "run" => sink = <<>>
        /\ RowCount(HeaderRow) <= 1
        /\ helper["header"] = "done" => (sink # <<>> /\ sink[1] = HeaderRow
                                         /\ RowCount(HeaderRow) = 1)

\* the run has ended with record rows in the file
C20_Witness ==
    /\ mode = "writer"
    /\ RunEnded
    /\ Len(sink) > 2
    /\ sink[1] = HeaderRow


\* C21: a failed write loses no record: when the writer task has ended after a
\* failed write, with no flush interrupted by the stop, every enqueued record is in
\* the file.
C21_FailedWriteLosesNothing ==
    (mode = "writer" /\ RunEnded /\ writer_pc = "done" /\ write_failed > 0
     /\ helper["header"] = "done" /\ helper["loop"] = "idle")
        => \A r \in 1..enqueued : r \in Range(sink)


\* thread t's asyncio.Queue holds a unit
HoldsUnit(t) == \E i \in DOMAIN queue[t] : queue[t][i] # NoneItem

\* C22 as stated: in multi-threaded mode no worker of any thread is sent the sentinel
\* until the shared task queue and the local queues of all threads are empty.
C22_SentinelsAfterAllQueuesEmpty ==
    (mode = "multi" /\ \E t \in LiveThreads : loader_nones[t] > 0)
        => /\ task_queue = <<>>
           /\ \A t \in LiveThreads : ~HoldsUnit(t)

\* C22, amended: the workers of a thread are sent the sentinel only when the shared
\* task queue and the local queue of that thread are empty, and the statistics are
\* printed only when every task_loader and every worker of every thread has ended.
C22_SentinelsAfterOwnQueuesEmpty ==
    mode = "multi" =>
        /\ \A t \in LiveThreads :
              (loader_pc[t] \in {"stop", "done"})
                  => (task_queue = <<>> /\ ~HoldsUnit(t) /\ loader_item[t] = NoneItem)
        /\ \A t \in LiveThreads : loader_nones[t] > 0 => loader_pc[t] \in {"stop", "done"}
        /\ report.printed
              => /\ \A t \in LiveThreads : loader_pc[t] = "done"
                 /\ \A w \in LiveWorkers : pc[w] = "exit"

\* one thread's workers have been sent a sentinel while another thread's queue
\* still holds a unit
C22_Witness ==
    /\ mode = "multi"
    /\ \E t \in LiveThreads, t2 \in LiveThreads :
          /\ loader_nones[t] > 0
          /\ HoldsUnit(t2)


\* the sentinels put on thread t's queue
SentinelsPut(t) == IF mode = "multi" THEN loader_nones[t] ELSE nones_put

\* C23: every run ends: the gather / join of the driver completes (unless the
\* clock of the model runs out while a worker sleeps), and when it has completed
\* every worker of every pool has exited, having taken one of the `concurrent`
\* sentinels of its pool, and no queue holds anything.
C23_RunTerminates ==
    /\ <>(main_pc = "done" \/ ClockOut)
    /\ [](main_pc = "done"
            => /\ \A w \in LiveWorkers : pc[w] = "exit"
               /\ \A t \in LiveThreads : SentinelsPut(t) = concurrent /\ queue[t] = <<>>
               /\ task_queue = <<>>
               /\ report.printed)

\* a run of a pool of two workers that has ended with both units recorded
C23_Witness ==
    /\ mode \in {"single", "multi"}
    /\ main_pc = "done"
    /\ concurrent = MaxConcurrent
    /\ stats.total = total_requests
    /\ \A w \in LiveWorkers : pc[w] = "exit"


\* C24: a run of the HTTP tool always ends by printing the statistics, also when
\* the user interrupts it while units are queued or in flight.
C24_StatsAlwaysPrinted ==
    (mode \in HttpModes /\ main_pc \in {"done", "interrupted"} /\ prod_idx > 0)
        => report.printed


\* the tools with a SIGINT handler: the consumer and the clients
HandlerModes == {"kafka", "mqtt"}

\* C25: in the consumer and in the clients, after a SIGINT (and with no failed
\* write) the process has exited only with the running flag of the writer cleared,
\* the final statistics printed exactly once and exit code 0.
C25_InterruptPrintsStatsOnce ==
    (mode \in HandlerModes /\ main_pc = "exited" /\ signals > 0 /\ write_failed = 0)
        => /\ ~csv_writer_running
           /\ prints = 1
           /\ exit_code = 0


\* consume_messages failed to connect, or its consume loop failed while running
ConsumeFailed ==
    \/ SetupError \in Range(kstats.errors)
    \/ loop_pc = "failed"

\* C26: the consumer exits with 1 when the connection fails or times out and when
\* the consume loop fails with an error while still running.
C26_ConsumerFailureExitsOne ==
    (mode = "kafka" /\ main_pc = "exited" /\ ConsumeFailed) => exit_code = 1


\* C27: when the identifier list cannot be loaded the run is aborted with exit code 1
\* before a worker is started, a unit enqueued, a request sent or a client
\* connected, and the statistics stay at their initial values.
C27_LoadFailureAborts ==
    main_pc = "failed" =>
        /\ exit_code = 1
        /\ \A w \in Workers : pc[w] = "idle"
        /\ \A t \in ThreadIds : loader_pc[t] = "idle" /\ queue[t] = <<>>
        /\ task_queue = <<>>
        /\ prod_idx = 0
        /\ \A u \in AllUnits : sent[u] = 0
        /\ stats = EmptyStats
        /\ \A c \in Clients : client_pc[c] = "none"
        /\ writer_pc = "none"
        /\ enqueued = 0
        /\ ~report.printed
        /\ prints = 0

\* the load has failed in a run of the HTTP tester with both workers configured
C27_Witness ==
    /\ main_pc = "failed"
    /\ exit_code = 1
    /\ mode \in HttpModes
    /\ concurrent = MaxConcurrent


\* worker w holds a failed outcome that is not yet recorded
HoldsFailure(w) == result[w] # NoResult /\ ~result[w].success

\* the sentinels of worker w's queue have begun to be put
SentinelsBegun(w) ==
    IF mode = "multi" THEN loader_nones[w[1]] > 0 ELSE nones_put > 0

\* C28: a failing request never ends a worker: the step that records a failed
\* outcome adds one to failed, marks the unit done and leaves the worker at its
\* next queue.get(); total counts every recorded outcome once; and no worker has
\* exited before the sentinels of its queue are put.
C28_FailureKeepsWorker ==
    /\ [][\A w \in LiveWorkers :
            (HoldsFailure(w) /\ result'[w] = NoResult) =>
                /\ pc'[w] = "get"
                /\ stats'.failed = stats.failed + 1
                /\ stats'.success = stats.success
                /\ unfinished'[w[1]] = unfinished[w[1]] - 1]_vars
    /\ [](stats.total = stats.success + stats.failed
                + Cardinality({w \in LiveWorkers : pc[w] = "stats_outcome"}))
    /\ [](\A w \in LiveWorkers : pc[w] = "exit" => SentinelsBegun(w))

\* a worker that recorded a failed outcome is at queue.get() with no sentinel put
C28_Witness ==
    /\ stats.failed > 0
    /\ \E w \in LiveWorkers : pc[w] = "get" /\ ~SentinelsBegun(w)
    /\ Cardinality(LiveWorkers) > 1


\* the state stop() acts on: the flags, and the tasks with their pending cancellations
StopState == <<consumer_running, csv_writer_running, writer_cancel, wd_cancel,
               writer_pc, wd_pc>>

\* a step that calls stop(): the watchdog's, the signal handler's, or main_async's
StopCalled ==
    \/ signals' # signals
    \/ fire_count' # fire_count
    \/ main_pc = "done" /\ main_pc' = "exited" /\ (writer_pc = "cancelled" \/ WriterRaised)

\* C29: stop() is idempotent: a call of stop() on a consumer that is already
\* stopped changes nothing: running and csv_writer_running stay false and no task
\* is cancelled again.
C29_StopIsIdempotent ==
    [][(mode = "kafka" /\ ~consumer_running /\ StopCalled) =>
            /\ UNCHANGED StopState
            /\ ~consumer_running'
            /\ ~csv_writer_running']_vars

\* the consumer was stopped by the watchdog and the signal handler has called
\* stop() again, while the writer task awaits its last write
C29_Witness ==
    /\ mode = "kafka"
    /\ fire_count = 1
    /\ signals = 1
    /\ writer_pc = "final"
    /\ ~writer_cancel
    /\ ~consumer_running


\* a step of the watchdog from its sleep back to its sleep: a poll that does not fire
QuietPoll == mode = "kafka" /\ wd_pc = "sleep" /\ wd_pc' = "sleep" /\ wd_wake' # wd_wake

\* what the consumer has received and queued, and its running flags
ConsumerState == <<kstats, last_message_time, start_consuming_time, data_queue,
                   consumer_running, csv_writer_running, loop_pc, arrivals, enqueued>>

\* C30: a poll of the watchdog that does not fire leaves the statistics,
\* last_message_time, start_consuming_time, the writer queue and the running
\* flags unchanged, and the consume loop can take its next message whatever the
\* watchdog is doing.
C30_QuietPollChangesNothing ==
    /\ [][QuietPoll => UNCHANGED ConsumerState]_vars
    /\ []((mode = "kafka" /\ loop_pc = "iter" /\ arrivals < MaxMessages)
            => ENABLED MessageArrives)

\* the watchdog has polled without firing, after a message, and sleeps again
C30_Witness ==
    /\ mode = "kafka"
    /\ wd_pc = "sleep"
    /\ wd_wake > start_consuming_time + PollTicks
    /\ fire_count = 0
    /\ consumer_running
    /\ kstats.messages_received > 0


\* the units the driver has enqueued
Produced == {UnitAt(i) : i \in 0..(prod_idx - 1)}

\* C31: the driver enqueues each (device, round) pair of the run exactly once, and
\* the units of one device enter the queue in strictly ascending round order, with
\* the round-major producer of http_stress.py (the asyncio queue, or the shared
\* queue of multi-threaded mode) and the device-major producer of main.py.
C31_EachUnitEnqueuedOnceAscending ==
    /\ [](mode \in HttpModes =>
            /\ prod_idx <= total_requests
            /\ Produced \subseteq Units
            /\ Cardinality(Produced) = prod_idx
            /\ prod_idx = total_requests => Produced = Units
            /\ \A i, j \in 0..(prod_idx - 1) :
                  (i < j /\ UnitAt(i)[1] = UnitAt(j)[1]) => UnitAt(i)[2] < UnitAt(j)[2])
    /\ [][(mode \in HttpModes /\ prod_idx' # prod_idx) =>
            /\ prod_idx' = prod_idx + 1
            /\ IF mode = "multi"
               THEN task_queue' = Append(task_queue, UnitAt(prod_idx))
               ELSE queue'[1] = Append(queue[1], UnitAt(prod_idx))]_vars

\* the round-major producer has enqueued every unit of 2 devices and 2 rounds
C31_Witness ==
    /\ mode = "single"
    /\ device_count = 2
    /\ loop_count = 2
    /\ prod_idx = total_requests


\* consume_messages has returned: its finally block (lines 409-415) has awaited
\* consumer.stop()
ConsumerStopped == main_pc \in {"done", "timeout", "exited"}

\* the tasks of the consumer have ended and the consumer is stopped
AllEnded ==
    /\ wd_pc \in {"none", "ended"}
    /\ loop_pc \in {"none", "ended", "failed"}
    /\ ConsumerStopped
    /\ writer_pc \in {"none", "done", "cancelled"}

\* C32: after stop() was called in the consumer (by the watchdog or by the signal
\* handler), eventually the watchdog task has ended, the consume loop has ended,
\* the consumer is stopped, the writer task has ended and the final statistics
\* are printed; and the statistics are never printed before all of these.
C32_ShutdownEndsAllThenPrints ==
    /\ []((mode = "kafka" /\ prints > 0) => AllEnded)
    /\ (mode = "kafka" /\ ~consumer_running)
            ~> (AllEnded /\ prints = 1 /\ main_pc = "exited")

\* the watchdog has stopped the consumer, the writer has written its last records
\* and the statistics are printed
C32_Witness ==
    /\ mode = "kafka"
    /\ fire_count = 1
    /\ main_pc = "exited"
    /\ prints = 1
    /\ writer_pc = "done"
    /\ Len(sink) > 1


\* the workers whose request is in flight
InFlight == {w \in Workers : pc[w] = "inflight"}

\* the units sent and not yet recorded in the statistics
Outstanding == {u \in AllUnits : sent[u] > recorded[u]}

\* the number of workers of the run: concurrent, in each of the threads
PoolSize == IF mode = "multi" THEN threads * concurrent ELSE concurrent

\* C33: at every point of a run at most concurrent requests are in flight in
\* single-threaded mode and at most threads * concurrent in multi-threaded mode,
\* at most concurrent in each thread, and a worker has at most one request in
\* flight: no unit is sent again before it is recorded, and at most as many
\* units as there are workers are sent and not yet recorded.
C33_InFlightBounded ==
    mode \in HttpModes =>
        /\ Cardinality(InFlight) <= PoolSize
        /\ \A t \in ThreadIds :
              Cardinality({w \in InFlight : w[1] = t}) <= concurrent
        /\ \A u \in AllUnits : sent[u] <= recorded[u] + 1
        /\ Cardinality(Outstanding) <= PoolSize

\* every worker of a single-threaded run of 2 workers has a request in flight
C33_Witness ==
    /\ mode = "single"
    /\ concurrent = 2
    /\ Cardinality(InFlight) = 2
    /\ Cardinality(Outstanding) = 2


\* a request of device d has completed: its time was written to last_request_time
Completed(d) ==
    \/ \E u \in AllUnits : u[1] = d /\ recorded[u] > 0
    \/ \E w \in LiveWorkers :
          /\ item[w] # NoneItem
          /\ item[w][1] = d
          /\ pc[w] \in {"stats_lock", "stats_total", "stats_outcome"}

\* C34: a key with no completed request has last_request_time 0, and a unit of a
\* round > 0 that is in the throttle while its key's last_request_time is 0 is
\* dispatched without sleeping.
C34_NeverDispatchedIsTimeZero ==
    /\ [](mode \in HttpModes =>
            \A d \in DeviceIds : ~Completed(d) => last_request_time[d] = 0)
    /\ [][\A w \in LiveWorkers :
            (/\ mode \in HttpModes
             /\ pc[w] = "throttle"
             /\ pc'[w] # "throttle"
             /\ last_request_time[item[w][1]] = 0)
                => (pc'[w] = "inflight" /\ sent'[item[w]] = sent[item[w]] + 1)]_vars

\* with an interval, a unit of a round > 0 is in flight before any request of its
\* key has completed
C34_Witness ==
    /\ interval > 0
    /\ \E w \in LiveWorkers :
          /\ pc[w] = "inflight"
          /\ item[w][2] > 0
          /\ last_request_time[item[w][1]] = 0
          /\ ~Completed(item[w][1])


\* the time worker w sleeps for, in the step that sends it to sleep
SleepDuration(w) == wake_at'[w] - now'

RecordsOf(records, c) ==
    LET OfDevice(r) == r[1] = c
    IN  SelectSeq(records, OfDevice)

\* the records << c, 1 >> .. << c, n >>
Numbered(c, n) == [i \in 1..n |-> <<c, i>>]

\* the original statement of C39: at every moment the records enqueued for a
\* device are numbered 1..n with n the device's messages_received
C39_EnqueuedReachMessagesReceived ==
    mode = "mqtt" =>
        \A c \in Clients :
            RecordsOf(put_log, c) = Numbered(c, client_stats[c].messages_received)

\* C39: the records enqueued for one device carry the sequence numbers 1..k in
\* enqueue order with no gap and no repeat, where k is the device's
\* messages_received less the number of its put tasks that have not run yet; a
\* message without a usable timestamp adds an error entry, leaves the sequence
\* number alone and enqueues no record.
C39_SequenceNumbersContiguous ==
    /\ [](mode = "mqtt" =>
            \A c \in Clients :
                LET k == Len(RecordsOf(put_log, c))
                IN  /\ RecordsOf(put_log, c) = Numbered(c, k)
                    /\ k + Len(RecordsOf(put_tasks, c)) = client_stats[c].messages_received
                    /\ RecordsOf(put_tasks, c) =
                          [i \in 1..Len(RecordsOf(put_tasks, c)) |-> <<c, k + i>>])
    /\ [][\A c \in Clients :
            (mode = "mqtt" /\ client_stats'[c].errors > client_stats[c].errors) =>
                /\ client_stats'[c].errors = client_stats[c].errors + 1
                /\ client_stats'[c].messages_received = client_stats[c].messages_received
                /\ UNCHANGED <<put_tasks, put_log, data_queue, enqueued>>]_vars

\* a device has received two messages with a timestamp and one without, and both of
\* its records are on the queue, while another device's record is there too
C39_Witness ==
    /\ mode = "mqtt"
    /\ \E c \in Clients :
          /\ client_stats[c].messages_received = 2
          /\ client_stats[c].errors = 1
          /\ Len(RecordsOf(put_log, c)) = 2
          /\ Len(put_log) = 3


\* every task of a client has ended
ClientsEnded == \A c \in LiveClients : client_pc[c] \in {"failed", "cancelled"}

\* C40: in the pub/sub tool start_clients never returns while csv_writer_running is
\* true: even after every client task has ended the run keeps waiting on the writer
\* task, and the await of start_clients ends only after stop_all(), through the
\* cancellation of a task or through an exception.
C40_StartClientsWaitsForWriter ==
    /\ [](mode = "mqtt" /\ main_pc \notin {"load", "failed"} /\ csv_writer_running =>
            main_pc = "gather")
    /\ [][mode = "mqtt" /\ main_pc = "gather" /\ main_pc' # "gather" =>
            /\ ~csv_writer_running
            /\ writer_pc \in {"done", "cancelled"} \/ ChildCancelled
            /\ signals > 0 \/ ChildCancelled \/ WriterRaised]_vars

\* every client task has ended, nothing stopped the writer, and the run still awaits
\* the gather at the end of the time the model covers
C40_Witness ==
    /\ mode = "mqtt"
    /\ main_pc = "gather"
    /\ ClientsEnded
    /\ csv_writer_running
    /\ writer_pc \notin {"none", "done", "cancelled"}
    /\ now = max_time


\* the numbers of the messages the list holds a latency of
Timed(latencies) == {latencies[i] : i \in 1..Len(latencies)}

\* C38: in the broker tool every message processed without error puts exactly one
\* record on the writer queue and increments messages_received by one, also when it
\* has no timestamp and no tx_start_ts header (zeros are written then): the
\* number of records enqueued equals messages_received.
C38_OneRecordForEachMessage ==
    /\ [](mode = "kafka" =>
            /\ enqueued = kstats.messages_received
            /\ Len(put_log) = enqueued
            /\ \A i \in 1..Len(put_log) :
                  put_log[i].message \notin Timed(kstats.message_timestamp_latency)
                                          \cup Timed(kstats.tx_start_latency) =>
                      /\ put_log[i].timestamp = 0
                      /\ put_log[i].latency = 0
                      /\ put_log[i].tx_latency = 0)
    /\ [][mode = "kafka" /\ arrivals' # arrivals /\ discarded' = discarded
            /\ kstats'.errors = kstats.errors =>
                /\ kstats'.messages_received = kstats.messages_received + 1
                /\ enqueued' = enqueued + 1
                /\ Len(data_queue') = Len(data_queue) + 1
                /\ put_log' = Append(put_log, put_log'[Len(put_log')])]_vars

\* a message with neither a timestamp nor the header has been processed: its
\* record of zeros is on the queue and it is counted, while a message that failed
\* left no record
C38_Witness ==
    /\ mode = "kafka"
    /\ Len(kstats.errors) = 1
    /\ kstats.messages_received = 2
    /\ \E i \in 1..Len(put_log) :
          /\ put_log[i].timestamp = 0
          /\ put_log[i].message \notin Timed(kstats.message_timestamp_latency)


\* send_request has returned from a call in the given mode
Returned(emqx) ==
    /\ mode = "call"
    /\ call_args.fn = "send_request"
    /\ call_args.emqx = emqx
    /\ call_result # NoCall

\* C36: an HTTP outcome is successful exactly when, in EMQX mode, the status is in
\* 200..299 and, in standard mode, the status is in 200..299 and the body parses
\* as a JSON object whose code equals 0; an exception raised while the request is
\* sent or the response is read gives status 0 and success false.
C36_SuccessRule ==
    \A emqx \in BOOLEAN :
        Returned(emqx) =>
            LET reply == call_args.reply
                in_2xx == reply.status \in 200..299
                code_is_0 ==
                    /\ reply.text.form = "object"
                    /\ reply.text.has_code
                    /\ reply.text.code \in
                          {JsonValue("int", 0), JsonValue("float", 0), JsonValue("bool", 0)}
            IN  IF reply.raises # "none"
                THEN call_result.status = 0 /\ call_result.success = FALSE
                ELSE /\ call_result.status = reply.status
                     /\ call_result.success = (in_2xx /\ (emqx \/ code_is_0))

\* in standard mode a response of status 200 whose code is 1 was taken for a failure
C36_Witness ==
    /\ Returned(FALSE)
    /\ call_args.reply.raises = "none"
    /\ call_args.reply.status = 200
    /\ call_args.reply.text = ResponseText("object", TRUE, JsonValue("int", 1))
    /\ call_result.success = FALSE

\* process_message has looked for the timestamp of a message
Looked == mode = "call" /\ call_args.fn = "process_message" /\ call_result # NoCall

\* the broker gave the message no timestamp, or the timestamp 0
BrokerSilent == call_args.timestamp \in {NoTimestamp, Timestamp(0, 0)}

\* C37: in the broker tool the payload's timestamp is used only when the broker's
\* message timestamp is absent or zero; a numeric payload timestamp above 10^12 is
\* taken for nanoseconds and becomes ts / 10^6 ms, one of at most 10^12 is used
\* unchanged.
C37_PayloadTimestampRule ==
    Looked =>
        /\ ~BrokerSilent => call_result = MessageTimestamp(call_args.timestamp, 1)
        /\ (BrokerSilent /\ call_args.value.form = "timed"
                /\ call_args.value.ts.type \in {"int", "float"}) =>
              LET ts == call_args.value.ts.num
                  above == ts.hi > NsPerMs \/ (ts.hi = NsPerMs /\ ts.lo >= 1)
              IN  call_result = MessageTimestamp(ts, IF above THEN NsPerMs ELSE 1)
        /\ (BrokerSilent /\ call_args.value.form # "timed") =>
              call_result = NoMessageTimestamp

\* the broker gave no timestamp and the payload's timestamp, 10^12 + 1, was divided
C37_Witness ==
    /\ Looked
    /\ call_args.timestamp = NoTimestamp
    /\ call_args.value = MessageValue("timed", JsonValue("int", Timestamp(NsPerMs, 1)))
    /\ call_result = MessageTimestamp(Timestamp(NsPerMs, 1), NsPerMs)

====
